---- MODULE Spec2Model ----
(***************************************************************************)
(* Model of the financer database-migration runner: the relational        *)
(* (PostgreSQL, "pg") and the document (MongoDB, "mongo") migration        *)
(* engines: discovery, ordering, planning, application, history and        *)
(* checksum validation; the execution control table and the command       *)
(* runner (MigrationRunner.run) with its connections, exit code and       *)
(* confirmation prompt.                                                    *)
(*                                                                         *)
(* Strings the code parses (version tokens, checksum strings) are          *)
(* sequences of one-character strings; file contents are sequences of      *)
(* byte values; 32-bit words are functions 1..32 -> {0,1}, bit 1 the least  *)
(* significant.                                                            *)
(***************************************************************************)
EXTENDS Integers, Sequences, FiniteSets, TLC

VARIABLES
    disk,         \* [engine -> sequence of files], in filesystem enumeration order
    tableExists,  \* [engine -> BOOLEAN]: the history table / collection exists
    history,      \* [engine -> sequence of history records], in insertion order
    sent,         \* [engine -> sequence of script names]: operations sent to the store
    pc,           \* control point of the runner
    cur,          \* engine of the call in progress or last made
    pending,      \* pending_migrations of the call in progress or last made
    results,      \* results of the execute_migrations call
    hist0,        \* number of history records when execute_migrations computed its plan
    sent0,        \* number of scripts sent when execute_migrations computed its plan
    valid,        \* what validate_migrations returned last
    info,         \* what get_migration_info returned last
    edits,        \* number of changes made to the migrations directory
    ctl,          \* migration_execution_history: [exists, rows]
    appTables,    \* the application tables that exist in the relational store
    conn,         \* connection handles of the process and the connections it has open
    uuids,        \* number of execution ids generated so far
    ctlRet,       \* the last ExecutionControl call: [call, arg, kind, val]
    drops,        \* what the process has issued a drop for
    rpc,          \* control point of MigrationRunner.run
    command,      \* command of the invocation
    executionId,  \* self.execution_id (0 is None)
    result,       \* what _execute_command returned
    exitCode,     \* what run returned
    response,     \* what the operator typed at the confirmation prompt
    interrupted,  \* an interrupt arrived during the invocation
    intStatus,    \* status of the execution record when the interrupt arrived
    runs,         \* number of invocations started
    pgResults,    \* postgres_results of _execute_migrate
    jsonDir,      \* the *.json files of a document migrations directory, as enumerated
    found,        \* what discover_migrations of the document engine did with jsonDir
    texts,        \* two script contents handed to _calculate_checksum
    sums,         \* the checksums returned for them
    mig,          \* migration_data of a document descriptor: its keys as written, its operations
    mstore,       \* the document store: its collections, the documents of collection "c"
    mlog,         \* the operations applied to the store, in the order of application
    mout,         \* what _execute_single_migration of the document engine returned and recorded
    runnerPc,         \* [runner -> control point] of two runners on one relational store
    runnerPending,    \* [runner -> pending_migrations of its execute_migrations call]
    runnerResults,    \* [runner -> results of its execute_migrations call]
    next_rank,        \* [runner -> next_rank its _record_migration read], 0 before the read
    executed          \* [runner -> versions of the scripts its cursor executed]

engineVars == <<disk, tableExists, history, sent, pc, cur, pending, results,
                hist0, sent0, valid, info, edits>>

storeVars == <<ctl, appTables, conn, uuids, ctlRet, drops>>

procVars == <<rpc, command, executionId, result, exitCode, response,
              interrupted, intStatus, runs, pgResults>>

runVars == <<storeVars, procVars>>

opVars == <<mig, mstore, mlog, mout>>

docVars == <<jsonDir, found, texts, sums, mig, mstore, mlog, mout>>

raceVars == <<runnerPc, runnerPending, runnerResults, next_rank, executed>>

vars == <<engineVars, runVars, docVars, raceVars>>

Engines == {"pg", "mongo"}

(***************************************************************************)
(* Bounds.                                                                 *)
(***************************************************************************)
MaxFiles == 3       \* files in the migrations directory of Spec
MaxScanFiles == 4   \* files in the migrations directory of SpecScan
MaxEnvFiles == 2    \* files in the migrations directory of SpecEnv
MaxEdits == 1       \* changes made to the migrations directory in SpecEnv
MaxSent == 3        \* scripts sent to a store before a run whose history read fails (SpecFault)
MaxConns == 2       \* connections opened in SpecControl
MaxExecs == 1       \* execution ids generated in SpecControl
MaxElapsed == 1     \* seconds between start_time and end_time of an execution
MaxRuns == 2        \* invocations of the runner in SpecRun
MaxRunFiles == 2    \* files in each migrations directory of SpecRun
MaxTextLen == 3     \* characters of a script content in SpecSum
MaxDataOps == 2     \* operations under the "data" key of a document descriptor

(***************************************************************************)
(* Generic helpers.                                                        *)
(***************************************************************************)
Range(s) == {s[i] : i \in 1..Len(s)}

\* The sequences over S without repetition, of length at most n.
RECURSIVE Arrangements(_, _)
Arrangements(S, n) ==
    IF n = 0 \/ S = {} THEN {<<>>}
    ELSE {<<>>} \cup UNION {{<<x>> \o t : t \in Arrangements(S \ {x}, n - 1)} : x \in S}

Prefix(s, n) == SubSeq(s, 1, n)

(***************************************************************************)
(* Whitespace stripping, as str.strip() and int() do it.                   *)
(***************************************************************************)
Whitespace == {" ", "\t", "\n"}

RECURSIVE LStrip(_)
LStrip(s) == IF s # <<>> /\ Head(s) \in Whitespace THEN LStrip(Tail(s)) ELSE s

RECURSIVE RStrip(_)
RStrip(s) ==
    IF s # <<>> /\ s[Len(s)] \in Whitespace THEN RStrip(SubSeq(s, 1, Len(s) - 1)) ELSE s

\* str.strip()
Strip(s) == RStrip(LStrip(s))

(***************************************************************************)
(* Version tokens and their sort key.                                      *)
(***************************************************************************)
Digits == <<"0", "1", "2", "3", "4", "5", "6", "7", "8", "9">>

IsDigit(c) == \E i \in 1..10 : Digits[i] = c

DigitVal(c) == (CHOOSE i \in 1..10 : Digits[i] = c) - 1

\* str.split('.'): the pieces between the dots, empty pieces included.
RECURSIVE SplitDots(_, _, _)
SplitDots(s, i, piece) ==
    IF i > Len(s) THEN <<piece>>
    ELSE IF s[i] = "." THEN <<piece>> \o SplitDots(s, i + 1, <<>>)
    ELSE SplitDots(s, i + 1, Append(piece, s[i]))

Split(s) == SplitDots(s, 1, <<>>)

\* int(x) of a str strips the surrounding whitespace, takes one leading sign
\* and reads decimal digits, single underscores allowed between two digits.
IntBody(x) ==
    LET t == Strip(x)
    IN  IF t # <<>> /\ t[1] \in {"+", "-"} THEN Tail(t) ELSE t

\* int(x) raises ValueError on anything else: an empty piece, a letter.
IntParses(x) ==
    LET b == IntBody(x)
    IN  /\ Len(b) > 0
        /\ \A i \in 1..Len(b) :
              \/ IsDigit(b[i])
              \/ /\ b[i] = "_"
                 /\ 1 < i /\ i < Len(b)
                 /\ IsDigit(b[i - 1]) /\ IsDigit(b[i + 1])

RECURSIVE DecimalValue(_, _)
DecimalValue(x, n) ==
    IF n = 0 THEN 0 ELSE 10 * DecimalValue(x, n - 1) + DigitVal(x[n])

\* The value of int(x) for a piece that parses.
IntValue(x) ==
    LET t == Strip(x)
        b == SelectSeq(IntBody(x), IsDigit)
        v == DecimalValue(b, Len(b))
    IN  IF t[1] = "-" THEN 0 - v ELSE v

\* _version_to_tuple, keeping the first component only (a faulty variant).
VersionToTupleFirstOnly(version) ==
    LET parts == Split(version)
    IN  IF IntParses(parts[1]) THEN <<IntValue(parts[1])>>
        ELSE <<0>>

\* _version_to_tuple, comparing the token as text, character by character (a faulty variant).
VersionToTupleText(version) ==
    [i \in 1..Len(version) |->
        IF IsDigit(version[i]) THEN DigitVal(version[i]) + 1 ELSE 0]

\* _version_to_tuple: tuple(int(x) for x in version.split('.')), (0,) on ValueError.
VersionToTuple(version) ==
    LET parts == Split(version)
    IN  IF \A i \in 1..Len(parts) : IntParses(parts[i])
        THEN [i \in 1..Len(parts) |-> IntValue(parts[i])]
        ELSE <<0>>

\* Python's order on tuples of integers: a < b.
RECURSIVE TupleLess(_, _)
TupleLess(a, b) ==
    IF b = <<>> THEN FALSE
    ELSE IF a = <<>> THEN TRUE
    ELSE IF Head(a) # Head(b) THEN Head(a) < Head(b)
    ELSE TupleLess(Tail(a), Tail(b))

TupleLeq(a, b) == ~TupleLess(b, a)

(***************************************************************************)
(* Relational checksum: CRC-32 of the line-ending-normalized content, as a *)
(* signed 32-bit integer, as a decimal string.                             *)
(***************************************************************************)
CR == 13
LF == 10

\* content.replace('\r\n', '\n').replace('\r', '\n')
RECURSIVE ReplaceCRLF(_)
ReplaceCRLF(bytes) ==
    IF bytes = <<>> THEN <<>>
    ELSE IF Len(bytes) >= 2 /\ bytes[1] = CR /\ bytes[2] = LF
         THEN <<LF>> \o ReplaceCRLF(SubSeq(bytes, 3, Len(bytes)))
         ELSE <<bytes[1]>> \o ReplaceCRLF(Tail(bytes))

ReplaceCR(bytes) == [i \in 1..Len(bytes) |-> IF bytes[i] = CR THEN LF ELSE bytes[i]]

\* The normalization without its second replace (a faulty variant).
NormalizeCRLFOnly(bytes) == ReplaceCRLF(bytes)

Normalize(bytes) == ReplaceCR(ReplaceCRLF(bytes))

Word == 1..32

ByteBits(b) == [i \in Word |-> IF i <= 8 THEN (b \div (2 ^ (i - 1))) % 2 ELSE 0]

Xor(a, b) == [i \in Word |-> (a[i] + b[i]) % 2]

ShiftRight(a) == [i \in Word |-> IF i < 32 THEN a[i + 1] ELSE 0]

AllOnes == [i \in Word |-> 1]

\* The reflected CRC-32 polynomial 0xEDB88320 of zlib, least significant bit first.
Poly == <<0,0,0,0, 0,1,0,0, 1,1,0,0, 0,0,0,1, 0,0,0,1, 1,1,0,1, 1,0,1,1, 0,1,1,1>>

RECURSIVE CrcShift(_, _)
CrcShift(c, n) ==
    IF n = 0 THEN c
    ELSE CrcShift(IF c[1] = 1 THEN Xor(ShiftRight(c), Poly) ELSE ShiftRight(c), n - 1)

RECURSIVE CrcFold(_, _)
CrcFold(c, bytes) ==
    IF bytes = <<>> THEN c
    ELSE CrcFold(CrcShift(Xor(c, ByteBits(Head(bytes))), 8), Tail(bytes))

\* zlib.crc32 of the bytes, as a 32-bit word.
Crc32(bytes) == Xor(CrcFold(AllOnes, bytes), AllOnes)

RECURSIVE LowBits(_, _)
LowBits(c, n) == IF n = 0 THEN 0 ELSE LowBits(c, n - 1) + c[n] * (2 ^ (n - 1))

\* if crc32 >= 2**31: crc32 -= 2**32
Signed32(c) ==
    IF c[32] = 1 THEN (LowBits(c, 31) - (2 ^ 30)) - (2 ^ 30) ELSE LowBits(c, 31)

\* str(n) of a non-negative integer.
RECURSIVE StrNat(_)
StrNat(n) == IF n < 10 THEN <<Digits[n + 1]>> ELSE Append(StrNat(n \div 10), Digits[(n % 10) + 1])

\* str(n)
Str(n) == IF n >= 0 THEN StrNat(n) ELSE <<"-">> \o StrNat(-n)

\* int(s) of a decimal string with an optional minus sign.
RECURSIVE NegDecimalValue(_, _)
NegDecimalValue(x, n) ==
    IF n = 0 THEN 0 ELSE 10 * NegDecimalValue(x, n - 1) - DigitVal(x[n])

ParseInt(s) ==
    IF Len(s) > 0 /\ s[1] = "-"
    THEN NegDecimalValue(Tail(s), Len(s) - 1)
    ELSE DecimalValue(s, Len(s))

\* Python values of the two types a checksum takes.
PyStr(s) == [type |-> "str", val |-> s]
PyInt(n) == [type |-> "int", val |-> n]

\* Python's ==: a str never equals an int.
PyEq(a, b) == a.type = b.type /\ a.val = b.val

\* _calculate_checksum of the relational engine.
CalculateChecksum(bytes) == PyStr(Str(Signed32(Crc32(Normalize(bytes)))))

\* hashlib.md5(content).hexdigest(): a string that is a function of the exact
\* bytes; the digest itself is not computed, distinct contents of the model
\* are taken to have distinct digests.
Md5HexDigest(bytes) == PyStr(<<"md5">> \o [i \in 1..Len(bytes) |-> bytes[i]])

(***************************************************************************)
(* Migration files.  A file is its name, the version token the scanner     *)
(* reads from it (from the file name V<version>__<description>.sql in the  *)
(* relational engine, from the "version" key of the JSON object in the     *)
(* document engine) and its content.                                       *)
(***************************************************************************)
FileSet ==
    { [name |-> "f1", version |-> <<"1", ".", "2">>],
      [name |-> "f2", version |-> <<"1", ".", "1", "0">>],
      [name |-> "f3", version |-> <<"2", ".", "0">>],
      [name |-> "f4", version |-> <<"1", ".", "2", ".", "1">>],
      [name |-> "f5", version |-> <<"1", ".", "2">>] }

ContentA == <<97, LF>>          \* "a\n"
ContentACRLF == <<97, CR, LF>>  \* "a\r\n"
ContentB == <<98, LF>>          \* "b\n"

Contents == {ContentA, ContentACRLF, ContentB}

\* The checksums and sort keys of the model's contents and version tokens,
\* computed once.
RelationalChecksums == [c \in Contents |-> CalculateChecksum(c)]

VersionKeys == [f \in FileSet |-> VersionToTuple(f.version)]

KeyOf(version) == VersionKeys[CHOOSE f \in FileSet : f.version = version]

WithContent(f, c) == [name |-> f.name, version |-> f.version, content |-> c]

\* The files of SpecEnv: two versions, one of them carried by two files.
EnvFileSet == {f \in FileSet : f.name \in {"f1", "f2", "f5"}}

\* The directories of at most n files of F, each file with the content c, in
\* every enumeration order.
Directories(F, n, c) ==
    {[i \in 1..Len(d) |-> WithContent(d[i], c)] : d \in Arrangements(F, n)}

Names(d) == {d[i].name : i \in 1..Len(d)}

RemoveAt(s, i) == SubSeq(s, 1, i - 1) \o SubSeq(s, i + 1, Len(s))

InsertAt(s, i, x) == SubSeq(s, 1, i - 1) \o <<x>> \o SubSeq(s, i, Len(s))

(***************************************************************************)
(* Sorting by version key.                                                 *)
(***************************************************************************)
\* list.sort(key=...): stable, ascending in the key.
RECURSIVE InsertByKey(_, _, _)
InsertByKey(sorted, m, k) ==
    IF sorted = <<>> THEN <<m>>
    ELSE IF TupleLess(k, KeyOf(Head(sorted).version))
         THEN <<m>> \o sorted
         ELSE <<Head(sorted)>> \o InsertByKey(Tail(sorted), m, k)

RECURSIVE SortByVersion(_)
SortByVersion(ms) ==
    IF ms = <<>> THEN <<>>
    ELSE LET n == Len(ms)
         IN  InsertByKey(SortByVersion(Prefix(ms, n - 1)), ms[n],
                         KeyOf(ms[n].version))

(***************************************************************************)
(* Discovery.                                                              *)
(***************************************************************************)
ChecksumOf(e, bytes) ==
    IF e = "pg" THEN RelationalChecksums[bytes] ELSE Md5HexDigest(bytes)

\* MigrationScript / MongoMigrationScript
Script(e, f) ==
    [version |-> f.version, filename |-> f.name, checksum |-> ChecksumOf(e, f.content)]

\* discover_migrations without the sort (a faulty variant).
DiscoverUnsorted(e, d) == [i \in 1..Len(d) |-> Script(e, d[i])]

\* discover_migrations: one descriptor per file, sorted by version key.
DiscoverMigrations(e, d) == SortByVersion([i \in 1..Len(d) |-> Script(e, d[i])])

(***************************************************************************)
(* The JSON files of the document engine, at the level of their parsed     *)
(* content: whether json.loads accepts the text, which of the required     *)
(* keys the object has, and the Python value of its "version".             *)
(***************************************************************************)
MaxJsonFiles == 3

JsonFile(name, parses, hasVersion, hasDescription, version) ==
    [name |-> name, parses |-> parses, hasVersion |-> hasVersion,
     hasDescription |-> hasDescription, version |-> version]

NoVersion == PyStr(<<>>)

JsonFiles ==
    { JsonFile("j12", TRUE, TRUE, TRUE, PyStr(<<"1", ".", "2">>)),
      JsonFile("j2", TRUE, TRUE, TRUE, PyStr(<<"2">>)),
      JsonFile("jx", TRUE, TRUE, TRUE, PyStr(<<"1", ".", "x">>)),      \* "version": "1.x"
      JsonFile("jplus", TRUE, TRUE, TRUE, PyStr(<<"+", "3">>)),        \* "version": "+3"
      JsonFile("jnum", TRUE, TRUE, TRUE, PyInt(3)),                    \* "version": 3
      JsonFile("jbad", FALSE, FALSE, FALSE, NoVersion),                \* not JSON
      JsonFile("jnover", TRUE, FALSE, TRUE, NoVersion),                \* no "version"
      JsonFile("jnodesc", TRUE, TRUE, FALSE, PyStr(<<"1", ".", "2">>)) \* no "description"
    }

JsonDirectories == Arrangements(JsonFiles, MaxJsonFiles)

\* The body of the scanning loop: a descriptor is appended when json.loads
\* succeeds and both required keys are present; otherwise the file is logged
\* and skipped.
Appended(f) == f.parses /\ f.hasVersion /\ f.hasDescription

MongoMigrationScript(f) == [version |-> f.version, filename |-> f.name]

\* version.split('.') exists on a str only: any other value raises
\* AttributeError, which the except ValueError of _version_to_tuple lets pass.
VersionKeyRaises(version) == version.type # "str"

\* list.sort(key=...) on the descriptors, all of whose keys are computed.
RECURSIVE InsertByTuple(_, _)
InsertByTuple(sorted, m) ==
    IF sorted = <<>> THEN <<m>>
    ELSE IF TupleLess(VersionToTuple(m.version.val), VersionToTuple(Head(sorted).version.val))
         THEN <<m>> \o sorted
         ELSE <<Head(sorted)>> \o InsertByTuple(Tail(sorted), m)

RECURSIVE SortByTuple(_)
SortByTuple(ms) ==
    IF ms = <<>> THEN <<>>
    ELSE InsertByTuple(SortByTuple(Prefix(ms, Len(ms) - 1)), ms[Len(ms)])

NotScanned == [state |-> "none", migrations |-> <<>>]

\* discover_migrations of the document engine on the files d: the loop, then
\* the sort, which is outside the try of the loop.
DiscoverJsonMigrations(d) ==
    LET kept == SelectSeq(d, Appended)
        ms == [i \in 1..Len(kept) |-> MongoMigrationScript(kept[i])]
    IN  IF \E i \in 1..Len(ms) : VersionKeyRaises(ms[i].version)
        THEN [state |-> "raised", migrations |-> <<>>]
        ELSE [state |-> "returned", migrations |-> SortByTuple(ms)]

(***************************************************************************)
(* The operations of a document migration.  The store is one database      *)
(* with at most the collection "c"; the filter of every update and delete  *)
(* and the pipeline of every aggregation match all its documents.          *)
(***************************************************************************)
Phases == {"collections", "indexes", "data", "aggregations"}

\* The order of the four if-statements of _execute_single_migration.
PhaseOrder == <<"collections", "indexes", "data", "aggregations">>

CollectionOp == [type |-> "create", list |-> FALSE, n |-> 0, upsert |-> FALSE]
IndexOp == [type |-> "index", list |-> FALSE, n |-> 0, upsert |-> FALSE]
AggregationOp == [type |-> "aggregate", list |-> FALSE, n |-> 0, upsert |-> FALSE]

\* The data operations: insert of a list of two documents or of one document
\* that is not in a list, update with or without the option upsert, delete.
DataOps ==
    {[type |-> "insert", list |-> TRUE, n |-> 2, upsert |-> FALSE],
     [type |-> "insert", list |-> FALSE, n |-> 1, upsert |-> FALSE]}
    \cup {[type |-> "update", list |-> FALSE, n |-> 0, upsert |-> u] : u \in BOOLEAN}
    \cup {[type |-> "delete", list |-> FALSE, n |-> 0, upsert |-> FALSE]}

RECURSIVE OpLists(_, _)
OpLists(S, n) ==
    IF n = 0 THEN {<<>>}
    ELSE LET L == OpLists(S, n - 1)
         IN  L \cup {Append(l, o) : l \in L, o \in S}

\* migration_data: the keys in the order of the JSON text, and the list
\* under each key (empty under an absent key).
MigrationData ==
    { [keys |-> ks,
       ops |-> [ph \in Phases |->
                  IF ph \notin Range(ks) THEN <<>>
                  ELSE IF ph = "collections" THEN <<CollectionOp>>
                  ELSE IF ph = "indexes" THEN <<IndexOp>>
                  ELSE IF ph = "aggregations" THEN <<AggregationOp>>
                  ELSE d]] :
        ks \in Arrangements(Phases, 4), d \in OpLists(DataOps, MaxDataOps) }

Stores ==
    { [collections |-> {}, docs |-> 0],
      [collections |-> {"c"}, docs |-> 0],
      [collections |-> {"c"}, docs |-> 1] }

\* The phases applied in the order of the keys of the JSON text (a faulty variant).
PhasesInKeyOrder(data) == data.keys

\* The phases _execute_single_migration applies, in its order: those of the
\* four keys that are in migration_data.
PhasesInOrder(data) == SelectSeq(PhaseOrder, LAMBDA ph : ph \in Range(data.keys))

\* The operations of the phases, phase by phase; last marks the end of a phase.
RECURSIVE Operations(_, _)
Operations(data, phases) ==
    IF phases = <<>> THEN <<>>
    ELSE LET l == data.ops[Head(phases)]
         IN  [i \in 1..Len(l) |-> [phase |-> Head(phases), op |-> l[i], last |-> i = Len(l)]]
             \o Operations(data, Tail(phases))

\* One operation on the store: the store after it, the number the engine adds
\* for it (n), and the number of collections or documents it created,
\* changed, removed or returned (effect).
\*   create:    skipped when the collection exists, else created and counted
\*   index:     create_index, counted once; the collection comes to exist
\*   insert:    len(inserted_ids), or 1 for insert_one
\*   update:    modified_count; with upsert and no document matching, one
\*              document is inserted and modified_count is 0
\*   delete:    deleted_count
\*   aggregate: len(list(cursor))
ApplyOp(store, op) ==
    LET with == [store EXCEPT !.collections = @ \cup {"c"}]
    IN  CASE op.type = "create" ->
               IF "c" \in store.collections
               THEN [store |-> store, n |-> 0, effect |-> 0]
               ELSE [store |-> with, n |-> 1, effect |-> 1]
          [] op.type = "index" -> [store |-> with, n |-> 1, effect |-> 1]
          [] op.type = "insert" ->
               [store |-> [with EXCEPT !.docs = @ + op.n], n |-> op.n, effect |-> op.n]
          [] op.type = "update" ->
               IF store.docs = 0 /\ op.upsert
               THEN [store |-> [with EXCEPT !.docs = 1], n |-> 0, effect |-> 1]
               ELSE [store |-> store, n |-> store.docs, effect |-> store.docs]
          [] op.type = "delete" ->
               [store |-> [store EXCEPT !.docs = 0], n |-> store.docs, effect |-> store.docs]
          [] op.type = "aggregate" ->
               [store |-> store, n |-> store.docs, effect |-> store.docs]

\* The body of the try of _execute_single_migration from the i-th operation
\* on, the failAt-th operation raising (none when failAt is 0).  A phase's
\* count is added to operations_count when the phase has returned.
RECURSIVE RunOperations(_, _, _, _)
RunOperations(entries, i, failAt, acc) ==
    IF i > Len(entries) THEN acc
    ELSE IF i = failAt THEN [acc EXCEPT !.failed = TRUE]
    ELSE LET r == ApplyOp(acc.store, entries[i].op)
             part == acc.part + r.n
         IN  RunOperations(entries, i + 1, failAt,
                 [store |-> r.store,
                  log |-> Append(acc.log, [phase |-> entries[i].phase, op |-> entries[i].op,
                                           effect |-> r.effect, after |-> r.store]),
                  operations_count |-> IF entries[i].last THEN acc.operations_count + part
                                       ELSE acc.operations_count,
                  part |-> IF entries[i].last THEN 0 ELSE part,
                  failed |-> FALSE])

NotExecuted ==
    [state |-> "none", before |-> [collections |-> {}, docs |-> 0],
     result |-> [successful |-> FALSE, operations_count |-> 0],
     record |-> [success |-> FALSE, operations_count |-> 0]]

\* No document migration is under examination.
NoDocument ==
    /\ mig = [keys |-> <<>>, ops |-> [ph \in Phases |-> <<>>]]
    /\ mstore = [collections |-> {}, docs |-> 0]
    /\ mlog = <<>>
    /\ mout = NotExecuted

(***************************************************************************)
(* History.                                                                *)
(***************************************************************************)
Ranks(rows) == {rows[i].installed_rank : i \in 1..Len(rows)}

SetMax(S) == CHOOSE x \in S : \A y \in S : y <= x

\* SELECT COUNT(*) in place of the maximum (a faulty variant).
NextRankCount(rows) == Len(rows)

\* The maximum taken over the success rows only (a faulty variant).
NextRankOfSuccessRows(rows) ==
    LET S == {rows[i].installed_rank : i \in {j \in 1..Len(rows) : rows[j].success}}
    IN  IF S = {} THEN 1 ELSE SetMax(S) + 1

\* SELECT COALESCE(MAX(installed_rank), 0) + 1
NextRank(rows) == IF rows = <<>> THEN 1 ELSE SetMax(Ranks(rows)) + 1

\* The row or document _record_migration inserts.  The relational column
\* checksum is INTEGER: int(migration.checksum).
Record(e, m, success, rows) ==
    IF e = "pg"
    THEN [installed_rank |-> NextRank(rows), version |-> m.version, type |-> "SQL",
          script |-> m.filename, checksum |-> PyInt(ParseInt(m.checksum.val)),
          execution_time |-> 0, success |-> success]
    ELSE [version |-> m.version, type |-> "NoSQL", script |-> m.filename,
          checksum |-> m.checksum, execution_time |-> 0, success |-> success]

\* ORDER BY installed_rank
RECURSIVE InsertByRank(_, _)
InsertByRank(sorted, r) ==
    IF sorted = <<>> THEN <<r>>
    ELSE IF r.installed_rank < Head(sorted).installed_rank THEN <<r>> \o sorted
    ELSE <<Head(sorted)>> \o InsertByRank(Tail(sorted), r)

RECURSIVE OrderByRank(_)
OrderByRank(rows) ==
    IF rows = <<>> THEN <<>>
    ELSE InsertByRank(OrderByRank(Prefix(rows, Len(rows) - 1)), rows[Len(rows)])

\* get_applied_migrations when the read does not fail.  Relational: the rows
\* by rank, [] when the table does not exist.  Document: the documents by
\* installed_on, which is their insertion order.
GetAppliedMigrations(e, exists, rows) ==
    IF e = "pg"
    THEN (IF exists THEN OrderByRank(rows) ELSE <<>>)
    ELSE rows

\* What get_applied_migrations returns when the read fails and the call does
\* not raise: the document engine logs the error and returns [].
AppliedOnReadFailure == <<>>

\* applied_versions counting successful records only (a faulty variant).
AppliedVersionsSuccessOnly(e, applied) ==
    {applied[i].version : i \in {j \in 1..Len(applied) : applied[j].success}}

\* applied_versions holding a version only when its latest record is a
\* success (a faulty variant).
AppliedVersionsByLastOutcome(e, applied) ==
    {applied[i].version :
        i \in {j \in 1..Len(applied) :
                 /\ applied[j].success
                 /\ \A k \in (j + 1)..Len(applied) : applied[k].version # applied[j].version}}

\* applied_versions of get_pending_migrations; the relational engine leaves
\* out a record whose version is None or empty.
AppliedVersions(e, applied) ==
    IF e = "pg"
    THEN {applied[i].version : i \in {j \in 1..Len(applied) : applied[j].version # <<>>}}
    ELSE {applied[i].version : i \in 1..Len(applied)}

\* [m for m in all_migrations if m.version not in applied_versions]
RECURSIVE Filter(_, _)
Filter(ms, versions) ==
    IF ms = <<>> THEN <<>>
    ELSE IF Head(ms).version \in versions THEN Filter(Tail(ms), versions)
    ELSE <<Head(ms)>> \o Filter(Tail(ms), versions)

\* get_pending_migrations leaving out only the descriptors whose record has
\* the descriptor's checksum too (a faulty variant).
RECURSIVE FilterByChecksum(_, _, _)
FilterByChecksum(e, ms, applied) ==
    IF ms = <<>> THEN <<>>
    ELSE IF \E i \in 1..Len(applied) :
               /\ applied[i].version = Head(ms).version
               /\ IF e = "pg"
                  THEN applied[i].checksum.val = ParseInt(Head(ms).checksum.val)
                  ELSE applied[i].checksum.val = Head(ms).checksum.val
         THEN FilterByChecksum(e, Tail(ms), applied)
         ELSE <<Head(ms)>> \o FilterByChecksum(e, Tail(ms), applied)

GetPendingMigrationsByChecksum(e, d, applied) ==
    FilterByChecksum(e, DiscoverMigrations(e, d), applied)

\* get_pending_migrations, given what get_applied_migrations returned.
GetPendingMigrations(e, d, applied) ==
    Filter(DiscoverMigrations(e, d), AppliedVersions(e, applied))

(***************************************************************************)
(* Connections.  A handle is the number of the connection, 0 is None.      *)
(***************************************************************************)
NoConnection == [ctl |-> 0, pg |-> 0, mongo |-> 0, n |-> 0, open |-> {}]

\* connect() of ExecutionControl ("ctl") and of the two engines: the new
\* connection is assigned to the handle; a failed connect raises and leaves
\* the handle as it was.
Connect(c, who, ok) ==
    IF ok THEN [c EXCEPT ![who] = c.n + 1, !.n = c.n + 1, !.open = c.open \cup {c.n + 1}]
    ELSE c

\* disconnect(): close the connection of the handle, if there is one.
Disconnect(c, who) ==
    IF c[who] # 0 THEN [c EXCEPT ![who] = 0, !.open = c.open \ {c[who]}] ELSE c

\* "if not self._connection: self.connect()"
ConnectIfNone(c, who, ok) == IF c[who] = 0 THEN Connect(c, who, ok) ELSE c

(***************************************************************************)
(* The execution control table.                                            *)
(***************************************************************************)
ExecutionStatus == {"STARTED", "IN_PROGRESS", "SUCCESS", "FAILED", "CANCELLED"}

ControlTable == "migration_execution_history"
HistoryTable == "flyway_schema_history"
AppTables == {"account_audit", "accounts"}
Collections == "mongodb collections"

NoControlTable == [exists |-> FALSE, rows |-> <<>>]

\* CREATE TABLE IF NOT EXISTS migration_execution_history
InitializeControlTable(t) == [t EXCEPT !.exists = TRUE]

\* MigrationExecution as _insert_execution stores it
MigrationExecution(id, cmd) ==
    [execution_id |-> id, command |-> cmd, status |-> "STARTED",
     postgres_migrations_count |-> 0, mongodb_migrations_count |-> 0]

InsertExecution(t, rec) == [t EXCEPT !.rows = Append(@, rec)]

\* UPDATE ... SET postgres_migrations_count, mongodb_migrations_count, status
\* WHERE execution_id = id
UpdateExecutionProgress(t, id, pgCount, mongoCount) ==
    [t EXCEPT !.rows = [i \in 1..Len(@) |->
        IF @[i].execution_id = id
        THEN [@[i] EXCEPT !.status = "IN_PROGRESS",
                          !.postgres_migrations_count = pgCount,
                          !.mongodb_migrations_count = mongoCount]
        ELSE @[i]]]

\* complete_execution raising when the control table is missing (a faulty variant).
CompleteRaisesStrict(t) == ~t.exists

\* complete_execution raises: the "does not exist" error of a missing control
\* table is swallowed.
CompleteRaises(t) == FALSE

\* UPDATE ... SET status, end_time, duration_seconds, ... WHERE execution_id = id;
\* nothing is written when the table is missing.
CompleteExecution(t, id, status) ==
    IF ~t.exists THEN t
    ELSE [t EXCEPT !.rows = [i \in 1..Len(@) |->
            IF @[i].execution_id = id THEN [@[i] EXCEPT !.status = status] ELSE @[i]]]

\* The durations complete_execution can return: 0 when the table or the row
\* is missing, else the seconds since start_time.
Durations(t, id) ==
    IF t.exists /\ \E i \in 1..Len(t.rows) : t.rows[i].execution_id = id
    THEN 0..MaxElapsed ELSE {0}

StatusOf(t, id) ==
    IF \E i \in 1..Len(t.rows) : t.rows[i].execution_id = id
    THEN t.rows[CHOOSE i \in 1..Len(t.rows) : t.rows[i].execution_id = id].status
    ELSE "none"

\* The drops clean_database_schemas issues without looking at confirm (a
\* faulty variant).
DropsUnconfirmed(confirm) == {ControlTable, HistoryTable} \cup AppTables

\* The tables clean_database_schemas(confirm) issues a drop for.
Drops(confirm) == IF confirm THEN {ControlTable, HistoryTable} \cup AppTables ELSE {}

Ret(call, arg, kind, val) == [call |-> call, arg |-> arg, kind |-> kind, val |-> val]

BoolStr(b) == IF b THEN "True" ELSE "False"

(***************************************************************************)
(* The state machine.                                                      *)
(***************************************************************************)
Between == pc # "loop"    \* no execute_migrations call is in progress

\* No invocation of the runner: a fresh relational store without control
\* table, a process without connections.
RunnerOff ==
    /\ ctl = NoControlTable
    /\ conn = NoConnection
    /\ uuids = 0
    /\ ctlRet = Ret("none", "", "none", 0)
    /\ drops = {}
    /\ rpc = "off"
    /\ command = "none"
    /\ executionId = 0
    /\ result = -1
    /\ exitCode = -1
    /\ response = "none"
    /\ interrupted = FALSE
    /\ intStatus = "none"
    /\ runs = 0
    /\ pgResults = <<>>

\* No document directory is under examination.
DocOff ==
    /\ jsonDir = <<>>
    /\ found = NotScanned
    /\ texts = <<>>
    /\ sums = <<>>
    /\ NoDocument

\* The runner instances that may work on one relational store at a time.
Runners == {1, 2}

\* No second runner: the two-runner variables are at rest.
RaceOff ==
    /\ runnerPc = [r \in Runners |-> "off"]
    /\ runnerPending = [r \in Runners |-> <<>>]
    /\ runnerResults = [r \in Runners |-> <<>>]
    /\ next_rank = [r \in Runners |-> 0]
    /\ executed = [r \in Runners |-> <<>>]

\* A fresh store, and a migrations directory of at most n files for one engine.
InitWith(F, n) ==
    /\ \E e \in Engines, d \in Directories(F, n, ContentA) :
           disk = [x \in Engines |-> IF x = e THEN d ELSE <<>>]
    /\ tableExists = [e \in Engines |-> FALSE]
    /\ history = [e \in Engines |-> <<>>]
    /\ sent = [e \in Engines |-> <<>>]
    /\ pc = "idle"
    /\ cur = "pg"
    /\ pending = <<>>
    /\ results = <<>>
    /\ hist0 = 0
    /\ sent0 = 0
    /\ valid = "none"
    /\ info = <<>>
    /\ edits = 0
    /\ appTables = {}
    /\ RunnerOff
    /\ DocOff
    /\ RaceOff

Init == InitWith(FileSet, MaxFiles)

\* The message of the error a history query ends with, <<>> when it ends
\* without one: readOk is whether the store answers the query; the
\* relational store answers a query on a missing table with UndefinedTable.
UndefinedTableMessage == <<"relation", "flyway_schema_history", "does", "not", "exist">>

OtherErrorMessage == <<"server", "closed", "the", "connection">>

QueryError(e, exists, readOk) ==
    IF ~readOk THEN OtherErrorMessage
    ELSE IF e = "pg" /\ ~exists THEN UndefinedTableMessage
    ELSE <<>>

Infix(needle, message) ==
    \E i \in 0..(Len(message) - Len(needle)) :
        SubSeq(message, i + 1, i + Len(needle)) = needle

\* The handler without its test of the message (a faulty variant).
TableMissingNever(message) == FALSE

\* "does not exist" in str(e)
TableMissing(message) == Infix(<<"does", "not", "exist">>, message)

\* What a call reads as the applied migrations.  The relational engine
\* re-raises an error of the read unless it tells of a missing table; the
\* document engine raises none.
ReadRaises(e, exists, readOk) ==
    LET message == QueryError(e, exists, readOk)
    IN  e = "pg" /\ message # <<>> /\ ~TableMissing(message)

Applied(e, exists, readOk) ==
    IF readOk THEN GetAppliedMigrations(e, exists, history[e]) ELSE AppliedOnReadFailure

\* get_pending_migrations recording a baseline row for the lowest discovered
\* version in an empty history (a faulty variant).
HistoryAfterPlanBaseline(e) ==
    LET d == DiscoverMigrations(e, disk[e])
    IN  IF history[e] = <<>> /\ d # <<>>
        THEN [history EXCEPT ![e] = <<Record(e, d[1], TRUE, <<>>)>>]
        ELSE history

\* What get_pending_migrations leaves in the history.
HistoryAfterPlan(e) == history

\* get_pending_migrations called on its own.
Plan(e, readOk) ==
    /\ Between
    /\ IF ReadRaises(e, tableExists[e], readOk)
       THEN pc' = "raised" /\ pending' = <<>>
       ELSE /\ pc' = "planned"
            /\ pending' = GetPendingMigrations(e, disk[e], Applied(e, tableExists[e], readOk))
    /\ cur' = e
    /\ results' = <<>>
    /\ hist0' = 0
    /\ sent0' = 0
    /\ valid' = "none"
    /\ info' = <<>>
    /\ history' = HistoryAfterPlan(e)
    /\ UNCHANGED <<raceVars, docVars, disk, tableExists, sent, edits, runVars>>

\* execute_migrations up to its loop: initialize the history store, compute
\* the pending list, return [] when it is empty.
ExecuteMigrations(e, readOk) ==
    /\ Between
    /\ tableExists' = [tableExists EXCEPT ![e] = TRUE]
    /\ IF ReadRaises(e, TRUE, readOk)
       THEN pc' = "raised" /\ pending' = <<>>
       ELSE /\ pending' = GetPendingMigrations(e, disk[e], Applied(e, TRUE, readOk))
            /\ pc' = IF pending' = <<>> THEN "returned" ELSE "loop"
    /\ cur' = e
    /\ results' = <<>>
    /\ hist0' = Len(history[e])
    /\ sent0' = Len(sent[e])
    /\ valid' = "none"
    /\ info' = <<>>
    /\ UNCHANGED <<raceVars, docVars, disk, history, sent, edits, runVars>>

\* get_migration_info: one entry per discovered descriptor, with the status
\* of the record of its version (of the last one when there are several),
\* Pending when there is none.
GetMigrationInfo(all, applied) ==
    [i \in 1..Len(all) |->
        LET recs == {j \in 1..Len(applied) : applied[j].version = all[i].version}
        IN  [version |-> all[i].version,
             status |-> IF recs = {} THEN "Pending"
                        ELSE IF applied[SetMax(recs)].success THEN "Success"
                        ELSE "Failed"]]

\* get_migration_info called on its own.
Info(e, readOk) ==
    /\ Between
    /\ IF ReadRaises(e, tableExists[e], readOk)
       THEN pc' = "raised" /\ info' = <<>>
       ELSE /\ pc' = "informed"
            /\ info' = GetMigrationInfo(DiscoverMigrations(e, disk[e]),
                                        Applied(e, tableExists[e], readOk))
    /\ cur' = e
    /\ pending' = <<>>
    /\ results' = <<>>
    /\ hist0' = 0
    /\ sent0' = 0
    /\ valid' = "none"
    /\ UNCHANGED <<raceVars, docVars, disk, tableExists, history, sent, edits, runVars>>

\* MigrationResult / MongoMigrationResult
Result(m, successful) ==
    [version |-> m.version, script |-> m.filename, checksum |-> m.checksum,
     successful |-> successful]

\* The insert of _record_migration is rejected: the document collection has a
\* unique index on version.
InsertRejected(e, m) ==
    e = "mongo" /\ \E i \in 1..Len(history[e]) : history[e][i].version = m.version

\* The loop does not stop at a failed result (a faulty variant).
LoopGoesOnAfterFailure(res) == Len(results) + 1 < Len(pending)

\* The loop of execute_migrations goes on after appending res.
LoopGoesOn(res) == res.successful /\ Len(results) + 1 < Len(pending)

\* One iteration of the loop of execute_migrations: _execute_single_migration
\* on the next pending descriptor, whose operations succeed (ok) or raise.
\* Either way the outcome is inserted into the history; when that insert is
\* rejected, the success insert raises into the handler, whose failure insert
\* raises out of execute_migrations.
ExecuteSingleMigration ==
    /\ pc = "loop"
    /\ LET e == cur
           m == pending[Len(results) + 1]
       IN  \E ok \in BOOLEAN :
             /\ sent' = [sent EXCEPT ![e] = Append(@, [script |-> m.filename,
                                                       version |-> m.version])]
             /\ IF InsertRejected(e, m)
                THEN /\ pc' = "raised"
                     /\ UNCHANGED <<history, results>>
                ELSE /\ history' = [history EXCEPT ![e] = Append(@, Record(e, m, ok, @))]
                     /\ results' = Append(results, Result(m, ok))
                     /\ pc' = IF LoopGoesOn(Result(m, ok)) THEN "loop" ELSE "returned"
    /\ UNCHANGED <<raceVars, docVars, disk, tableExists, cur, pending, hist0, sent0, valid, info, edits, runVars>>

\* current_migrations = {m.version: m for m in discover_migrations()}: of the
\* descriptors with one version the last one stays.
CurrentMigration(current, version) ==
    current[SetMax({i \in 1..Len(current) : current[i].version = version})]

OnDisk(current, version) == \E j \in 1..Len(current) : current[j].version = version

\* The comparison made on the integers the two checksums denote (a variant).
ChecksumDiffersAsInt(currentChecksum, appliedChecksum) ==
    ParseInt(currentChecksum.val) # appliedChecksum.val

\* current_checksum != applied_checksum
ChecksumDiffers(currentChecksum, appliedChecksum) == ~PyEq(currentChecksum, appliedChecksum)

\* validate_migrations that also fails on a record without a file (a faulty variant).
ValidateMigrationsStrict(applied, current) ==
    \A i \in 1..Len(applied) :
        /\ OnDisk(current, applied[i].version)
        /\ ~ChecksumDiffers(CurrentMigration(current, applied[i].version).checksum,
                            applied[i].checksum)

\* validate_migrations: validation_passed.
ValidateMigrations(applied, current) ==
    \A i \in 1..Len(applied) :
        OnDisk(current, applied[i].version)
            => ~ChecksumDiffers(CurrentMigration(current, applied[i].version).checksum,
                                applied[i].checksum)

\* validate_migrations deleting the records it finds mismatched (a faulty variant).
HistoryAfterValidateRepairing ==
    LET current == DiscoverMigrations("pg", disk["pg"])
        rows == history["pg"]
        keep == {i \in 1..Len(rows) : ValidateMigrations(<<rows[i]>>, current)}
    IN  [history EXCEPT !["pg"] = IF keep = 1..Len(rows) THEN rows ELSE <<>>]

\* What validate_migrations leaves in the history.
HistoryAfterValidate == history

\* validate_migrations (the relational engine has it, the document engine not).
Validate(readOk) ==
    /\ Between
    /\ IF ReadRaises("pg", tableExists["pg"], readOk)
       THEN pc' = "raised" /\ valid' = "none"
       ELSE /\ pc' = "validated"
            /\ valid' = ValidateMigrations(
                            Applied("pg", tableExists["pg"], readOk),
                            DiscoverMigrations("pg", disk["pg"]))
    /\ cur' = "pg"
    /\ history' = HistoryAfterValidate
    /\ info' = <<>>
    /\ pending' = <<>>
    /\ results' = <<>>
    /\ hist0' = 0
    /\ sent0' = 0
    /\ UNCHANGED <<raceVars, docVars, disk, tableExists, sent, edits, runVars>>

\* The clean command, confirmed: clean_database_schemas(confirm=True) drops the
\* relational history table with the control and application tables, then
\* every collection of the document store is dropped, best effort (mongoOk).
\* The stores of the engines in dropped lose history and applied operations.
\* A clean that leaves the histories in place (a faulty variant).
DropStoresKeepingHistory(dropped) ==
    /\ history' = history
    /\ sent' = [e \in Engines |-> IF e \in dropped THEN <<>> ELSE sent[e]]
    /\ tableExists' = [e \in Engines |-> IF e \in dropped THEN FALSE ELSE tableExists[e]]

DropStores(dropped) ==
    /\ history' = [e \in Engines |-> IF e \in dropped THEN <<>> ELSE history[e]]
    /\ sent' = [e \in Engines |-> IF e \in dropped THEN <<>> ELSE sent[e]]
    /\ tableExists' = [e \in Engines |-> IF e \in dropped THEN FALSE ELSE tableExists[e]]

\* No engine call is in progress or remembered.
NoCall ==
    /\ cur' = "pg"
    /\ pending' = <<>>
    /\ results' = <<>>
    /\ hist0' = 0
    /\ sent0' = 0
    /\ valid' = "none"
    /\ info' = <<>>

Clean ==
    /\ Between
    /\ \E mongoOk \in BOOLEAN : DropStores(IF mongoOk THEN Engines ELSE {"pg"})
    /\ drops' = drops \cup Drops(TRUE)
    /\ pc' = "cleaned"
    /\ NoCall
    /\ UNCHANGED <<raceVars, docVars, disk, edits, ctl, appTables, conn, uuids, ctlRet, procVars>>

\* The stores answer every history read; the operations of a migration
\* succeed or raise.
Next ==
    \/ \E e \in Engines : Plan(e, TRUE)
    \/ \E e \in Engines : Info(e, TRUE)
    \/ \E e \in Engines : ExecuteMigrations(e, TRUE)
    \/ ExecuteSingleMigration
    \/ Validate(TRUE)
    \/ Clean

Spec == Init /\ [][Next]_vars

(***************************************************************************)
(* History reads may fail.  A run whose read fails starts only while fewer *)
(* than MaxSent scripts have been sent to the store.                       *)
(***************************************************************************)
InitFault == InitWith(EnvFileSet, MaxEnvFiles)

NextFault ==
    \/ Next
    \/ \E e \in Engines : Plan(e, FALSE)
    \/ \E e \in Engines : Info(e, FALSE)
    \/ \E e \in Engines : Len(sent[e]) < MaxSent /\ ExecuteMigrations(e, FALSE)
    \/ Validate(FALSE)

SpecFault == InitFault /\ [][NextFault]_vars

(***************************************************************************)
(* The environment: the migrations directory changes between calls.        *)
(***************************************************************************)
Changed(d) ==
    /\ Between
    /\ edits < MaxEdits
    /\ edits' = edits + 1
    /\ disk' = d
    /\ pc' = "idle"
    /\ cur' = "pg"
    /\ pending' = <<>>
    /\ results' = <<>>
    /\ hist0' = 0
    /\ sent0' = 0
    /\ valid' = "none"
    /\ info' = <<>>
    /\ UNCHANGED <<tableExists, history, sent, runVars, docVars, raceVars>>

EditFile(e) ==
    \E i \in 1..Len(disk[e]) : \E c \in Contents \ {disk[e][i].content} :
        Changed([disk EXCEPT ![e][i].content = c])

RemoveFile(e) ==
    \E i \in 1..Len(disk[e]) : Changed([disk EXCEPT ![e] = RemoveAt(@, i)])

AddFile(e) ==
    /\ disk[e] # <<>>
    /\ Len(disk[e]) < MaxEnvFiles
    /\ \E f \in EnvFileSet, i \in 1..(Len(disk[e]) + 1) :
          /\ f.name \notin Names(disk[e])
          /\ Changed([disk EXCEPT ![e] = InsertAt(@, i, WithContent(f, ContentA))])

InitEnv == InitWith(EnvFileSet, MaxEnvFiles)

NextEnv ==
    \/ Next
    \/ \E e \in Engines : EditFile(e)
    \/ \E e \in Engines : RemoveFile(e)
    \/ \E e \in Engines : AddFile(e)

SpecEnv == InitEnv /\ [][NextEnv]_vars

(***************************************************************************)
(* Discovery alone: any directory, scanned.                                *)
(***************************************************************************)
InitScan == InitWith(FileSet, MaxScanFiles)

Scan(e) ==
    /\ pc = "idle"
    /\ pc' = "scanned"
    /\ cur' = e
    /\ pending' = DiscoverMigrations(e, disk[e])
    /\ UNCHANGED <<raceVars, docVars, disk, tableExists, history, sent, results, hist0, sent0, valid, info, edits,
                   runVars>>

NextScan == \E e \in Engines : Scan(e)

SpecScan == InitScan /\ [][NextScan]_vars

(***************************************************************************)
(* Two runner instances on one relational store.  Each runs                *)
(* execute_migrations of the relational engine over the same migrations    *)
(* directory.  The connections are in autocommit mode, so every statement  *)
(* (the history query, the script, the SELECT of the next rank, the        *)
(* INSERT) is a transaction of its own and takes effect at once; the       *)
(* statements of the two runners interleave in any order.                  *)
(***************************************************************************)
MaxRaceFiles == 2   \* files in the migrations directory of SpecRace

\* The files of SpecRace: three different versions.
RaceFileSet == {f \in FileSet : f.name \in {"f1", "f2", "f3"}}

InitRace ==
    /\ disk \in {[e \in Engines |-> IF e = "pg" THEN d ELSE <<>>] :
                    d \in Directories(RaceFileSet, MaxRaceFiles, ContentA)}
    /\ tableExists = [e \in Engines |-> FALSE]
    /\ history = [e \in Engines |-> <<>>]
    /\ sent = [e \in Engines |-> <<>>]
    /\ pc = "idle"
    /\ cur = "pg"
    /\ pending = <<>>
    /\ results = <<>>
    /\ hist0 = 0
    /\ sent0 = 0
    /\ valid = "none"
    /\ info = <<>>
    /\ edits = 0
    /\ appTables = {}
    /\ RunnerOff
    /\ DocOff
    /\ runnerPc = [r \in Runners |-> "idle"]
    /\ runnerPending = [r \in Runners |-> <<>>]
    /\ runnerResults = [r \in Runners |-> <<>>]
    /\ next_rank = [r \in Runners |-> 0]
    /\ executed = [r \in Runners |-> <<>>]

RaceFrame == UNCHANGED <<docVars, runVars, disk, pc, cur, pending, results, hist0, sent0,
                         valid, info, edits>>

\* The descriptor runner r is working on.
RunnerMigration(r) == runnerPending[r][Len(runnerResults[r]) + 1]

\* The INSERT of a row with this rank raises: the unique index on
\* installed_rank rejects a row whose rank is in the table.
RankRejected(rank, rows) == \E i \in 1..Len(rows) : rows[i].installed_rank = rank

\* execute_migrations up to its loop: initialize_schema_history, then
\* get_pending_migrations, which reads the history as it is now.
RunnerPlans(r) ==
    /\ runnerPc[r] = "idle"
    /\ tableExists' = [tableExists EXCEPT !["pg"] = TRUE]
    /\ LET p == GetPendingMigrations("pg", disk["pg"], Applied("pg", TRUE, TRUE))
       IN  /\ runnerPending' = [runnerPending EXCEPT ![r] = p]
           /\ runnerPc' = [runnerPc EXCEPT ![r] = IF p = <<>> THEN "returned" ELSE "script"]
    /\ UNCHANGED <<history, sent, runnerResults, next_rank, executed>>
    /\ RaceFrame

\* cursor.execute(migration.sql_content): the script runs on the store, and
\* succeeds (ok) or raises into the handler of _execute_single_migration.
RunnerExecutesScript(r) ==
    /\ runnerPc[r] = "script"
    /\ LET m == RunnerMigration(r)
       IN  /\ sent' = [sent EXCEPT !["pg"] = Append(@, [script |-> m.filename,
                                                        version |-> m.version])]
           /\ executed' = [executed EXCEPT ![r] = Append(@, m.version)]
    /\ \E ok \in BOOLEAN :
           runnerPc' = [runnerPc EXCEPT ![r] = IF ok THEN "rank" ELSE "failed_rank"]
    /\ UNCHANGED <<tableExists, history, runnerPending, runnerResults, next_rank>>
    /\ RaceFrame

\* _record_migration, first statement: the SELECT of the next rank, for the
\* success row ("rank") or for the failure row ("failed_rank").
RunnerReadsRank(r) ==
    /\ runnerPc[r] \in {"rank", "failed_rank"}
    /\ next_rank' = [next_rank EXCEPT ![r] = NextRank(history["pg"])]
    /\ runnerPc' = [runnerPc EXCEPT ![r] = IF @ = "rank" THEN "insert" ELSE "failed_insert"]
    /\ UNCHANGED <<tableExists, history, sent, runnerPending, runnerResults, executed>>
    /\ RaceFrame

\* _record_migration, second statement: the INSERT with the rank read
\* before.  A rejected insert of the success row raises into the handler of
\* _execute_single_migration, which records the failure; a rejected insert of
\* the failure row raises out of execute_migrations.  An accepted insert ends
\* the iteration of the loop, which goes on after a success.
RunnerInserts(r) ==
    /\ runnerPc[r] \in {"insert", "failed_insert"}
    /\ LET m == RunnerMigration(r)
           success == runnerPc[r] = "insert"
           row == [Record("pg", m, success, history["pg"])
                       EXCEPT !.installed_rank = next_rank[r]]
           res == Result(m, success)
           more == success /\ Len(runnerResults[r]) + 1 < Len(runnerPending[r])
       IN  IF RankRejected(next_rank[r], history["pg"])
           THEN /\ runnerPc' = [runnerPc EXCEPT ![r] = IF success THEN "failed_rank"
                                                        ELSE "raised"]
                /\ UNCHANGED <<history, runnerResults>>
           ELSE /\ history' = [history EXCEPT !["pg"] = Append(@, row)]
                /\ runnerResults' = [runnerResults EXCEPT ![r] = Append(@, res)]
                /\ runnerPc' = [runnerPc EXCEPT ![r] = IF more THEN "script" ELSE "returned"]
    /\ next_rank' = [next_rank EXCEPT ![r] = 0]
    /\ UNCHANGED <<tableExists, sent, runnerPending, executed>>
    /\ RaceFrame

NextRace ==
    \/ \E r \in Runners : RunnerPlans(r)
    \/ \E r \in Runners : RunnerExecutesScript(r)
    \/ \E r \in Runners : RunnerReadsRank(r)
    \/ \E r \in Runners : RunnerInserts(r)

SpecRace == InitRace /\ [][NextRace]_vars

(***************************************************************************)
(* Discovery of the document engine alone, on JSON files of any kind.      *)
(***************************************************************************)
\* Fresh stores, empty relational and document directories, no call, no
\* invocation of the runner.
EngineOff ==
    /\ disk = [e \in Engines |-> <<>>]
    /\ tableExists = [e \in Engines |-> FALSE]
    /\ history = [e \in Engines |-> <<>>]
    /\ sent = [e \in Engines |-> <<>>]
    /\ pc = "idle"
    /\ cur = "pg"
    /\ pending = <<>>
    /\ results = <<>>
    /\ hist0 = 0
    /\ sent0 = 0
    /\ valid = "none"
    /\ info = <<>>
    /\ edits = 0
    /\ appTables = {}
    /\ RunnerOff
    /\ RaceOff

InitJson ==
    /\ EngineOff
    /\ jsonDir \in JsonDirectories
    /\ found = NotScanned
    /\ texts = <<>>
    /\ sums = <<>>
    /\ NoDocument

ScanJson ==
    /\ found.state = "none"
    /\ found' = DiscoverJsonMigrations(jsonDir)
    /\ UNCHANGED <<engineVars, runVars, raceVars, jsonDir, texts, sums, opVars>>

NextJson == ScanJson

SpecJson == InitJson /\ [][NextJson]_vars

(***************************************************************************)
(* The relational checksum alone, on two script contents.                  *)
(***************************************************************************)
\* The texts of at most n characters over a letter and the two line-ending
\* characters.
RECURSIVE Texts(_)
Texts(n) ==
    IF n = 0 THEN {<<>>}
    ELSE LET T == Texts(n - 1)
         IN  T \cup {Append(t, c) : t \in T, c \in {97, CR, LF}}

InitSum ==
    /\ EngineOff
    /\ jsonDir = <<>>
    /\ found = NotScanned
    /\ texts \in Texts(MaxTextLen) \X Texts(MaxTextLen)
    /\ sums = <<>>
    /\ NoDocument

Checksum ==
    /\ texts # <<>>
    /\ sums = <<>>
    /\ sums' = <<CalculateChecksum(texts[1]), CalculateChecksum(texts[2])>>
    /\ UNCHANGED <<engineVars, runVars, raceVars, jsonDir, found, texts, opVars>>

NextSum == Checksum

SpecSum == InitSum /\ [][NextSum]_vars

(***************************************************************************)
(* One document migration applied to a store.                              *)
(***************************************************************************)
InitOps ==
    /\ EngineOff
    /\ jsonDir = <<>>
    /\ found = NotScanned
    /\ texts = <<>>
    /\ sums = <<>>
    /\ mig \in MigrationData
    /\ mstore \in Stores
    /\ mlog = <<>>
    /\ mout = NotExecuted

\* _execute_single_migration of the document engine: the operations in phase
\* order until one raises; then the success record and result, or the failure
\* record (operations_count 0) and the failed result (the count so far).
ExecuteDocumentMigration ==
    /\ mout.state = "none"
    /\ LET entries == Operations(mig, PhasesInOrder(mig))
       IN  \E failAt \in 0..Len(entries) :
              LET r == RunOperations(entries, 1, failAt,
                           [store |-> mstore, log |-> <<>>, operations_count |-> 0,
                            part |-> 0, failed |-> FALSE])
              IN  /\ mstore' = r.store
                  /\ mlog' = r.log
                  /\ mout' = [state |-> "returned", before |-> mstore,
                              result |-> [successful |-> ~r.failed,
                                          operations_count |-> r.operations_count],
                              record |-> [success |-> ~r.failed,
                                          operations_count |-> IF r.failed THEN 0
                                                               ELSE r.operations_count]]
    /\ UNCHANGED <<engineVars, runVars, raceVars, jsonDir, found, texts, sums, mig>>

NextOps == ExecuteDocumentMigration

SpecOps == InitOps /\ [][NextOps]_vars

(***************************************************************************)
(* ExecutionControl called method by method, in any order, on a relational *)
(* store that one earlier migration may have filled.                       *)
(***************************************************************************)
FirstFile == WithContent(CHOOSE f \in FileSet : f.name = "f1", ContentA)

InitControl ==
    /\ disk = [e \in Engines |-> <<>>]
    /\ \E migrated \in BOOLEAN :
          /\ tableExists = [e \in Engines |-> e = "pg" /\ migrated]
          /\ history = [e \in Engines |->
                IF e = "pg" /\ migrated
                THEN <<Record("pg", Script("pg", FirstFile), TRUE, <<>>)>> ELSE <<>>]
          /\ sent = [e \in Engines |->
                IF e = "pg" /\ migrated
                THEN <<[script |-> FirstFile.name, version |-> FirstFile.version]>> ELSE <<>>]
    /\ appTables \in SUBSET AppTables
    /\ pc = "idle"
    /\ cur = "pg"
    /\ pending = <<>>
    /\ results = <<>>
    /\ hist0 = 0
    /\ sent0 = 0
    /\ valid = "none"
    /\ info = <<>>
    /\ edits = 0
    /\ RunnerOff
    /\ DocOff
    /\ RaceOff

\* The outcomes of the connect a method makes when it has no connection.
ConnectOutcomes == IF conn.ctl = 0 THEN BOOLEAN ELSE {TRUE}

CanConnect == conn.ctl = 0 => conn.n < MaxConns

ControlFrame == UNCHANGED <<raceVars, docVars, disk, pc, cur, pending, results, hist0, sent0, valid, info, edits,
                            procVars>>

CallConnect ==
    /\ conn.n < MaxConns
    /\ \E ok \in BOOLEAN :
          /\ conn' = Connect(conn, "ctl", ok)
          /\ ctlRet' = Ret("connect", "", IF ok THEN "None" ELSE "raised", 0)
    /\ UNCHANGED <<tableExists, history, sent, ctl, appTables, uuids, drops>>
    /\ ControlFrame

CallDisconnect ==
    /\ conn' = Disconnect(conn, "ctl")
    /\ ctlRet' = Ret("disconnect", "", "None", 0)
    /\ UNCHANGED <<tableExists, history, sent, ctl, appTables, uuids, drops>>
    /\ ControlFrame

CallInitializeControlTable ==
    /\ CanConnect
    /\ \E ok \in ConnectOutcomes :
          /\ conn' = ConnectIfNone(conn, "ctl", ok)
          /\ ctl' = IF ok THEN InitializeControlTable(ctl) ELSE ctl
          /\ ctlRet' = Ret("initialize_control_table", "", IF ok THEN "None" ELSE "raised", 0)
    /\ UNCHANGED <<tableExists, history, sent, appTables, uuids, drops>>
    /\ ControlFrame

\* start_execution: a fresh id, then _insert_execution, whose INSERT raises
\* when the table is missing.
CallStartExecution(cmd) ==
    /\ uuids < MaxExecs
    /\ CanConnect
    /\ uuids' = uuids + 1
    /\ \E ok \in ConnectOutcomes :
          /\ conn' = ConnectIfNone(conn, "ctl", ok)
          /\ IF ok /\ ctl.exists
             THEN /\ ctl' = InsertExecution(ctl, MigrationExecution(uuids + 1, cmd))
                  /\ ctlRet' = Ret("start_execution", cmd, "id", uuids + 1)
             ELSE /\ ctl' = ctl
                  /\ ctlRet' = Ret("start_execution", cmd, "raised", 0)
    /\ UNCHANGED <<tableExists, history, sent, appTables, drops>>
    /\ ControlFrame

CallUpdateExecutionProgress(id, pgCount, mongoCount) ==
    /\ CanConnect
    /\ \E ok \in ConnectOutcomes :
          /\ conn' = ConnectIfNone(conn, "ctl", ok)
          /\ IF ok /\ ctl.exists
             THEN /\ ctl' = UpdateExecutionProgress(ctl, id, pgCount, mongoCount)
                  /\ ctlRet' = Ret("update_execution_progress", "", "None", id)
             ELSE /\ ctl' = ctl
                  /\ ctlRet' = Ret("update_execution_progress", "", "raised", id)
    /\ UNCHANGED <<tableExists, history, sent, appTables, uuids, drops>>
    /\ ControlFrame

CallCompleteExecution(id, status) ==
    /\ CanConnect
    /\ \E ok \in ConnectOutcomes :
          /\ conn' = ConnectIfNone(conn, "ctl", ok)
          /\ IF ok /\ ~CompleteRaises(ctl)
             THEN /\ ctl' = CompleteExecution(ctl, id, status)
                  /\ \E d \in Durations(ctl, id) :
                        ctlRet' = Ret("complete_execution", status, "duration", d)
             ELSE /\ ctl' = ctl
                  /\ ctlRet' = Ret("complete_execution", status, "raised", 0)
    /\ UNCHANGED <<tableExists, history, sent, appTables, uuids, drops>>
    /\ ControlFrame

\* The effect of the drops of the tables and collections in d.
DropTables(d) ==
    /\ ctl' = IF ControlTable \in d THEN NoControlTable ELSE ctl
    /\ DropStores((IF HistoryTable \in d THEN {"pg"} ELSE {})
                    \cup (IF Collections \in d THEN {"mongo"} ELSE {}))
    /\ appTables' = appTables \ d
    /\ drops' = drops \cup d

\* clean_database_schemas(confirm)
CallCleanDatabaseSchemas(confirm) ==
    /\ CanConnect
    /\ IF Drops(confirm) = {}
       THEN /\ ctlRet' = Ret("clean_database_schemas", BoolStr(confirm), "False", 0)
            /\ UNCHANGED <<tableExists, history, sent, ctl, appTables, conn, drops>>
       ELSE \E ok \in ConnectOutcomes :
              /\ conn' = ConnectIfNone(conn, "ctl", ok)
              /\ IF ok
                 THEN /\ DropTables(Drops(confirm))
                      /\ ctlRet' = Ret("clean_database_schemas", BoolStr(confirm), "True", 0)
                 ELSE /\ ctlRet' = Ret("clean_database_schemas", BoolStr(confirm), "raised", 0)
                      /\ UNCHANGED <<tableExists, history, sent, ctl, appTables, drops>>
    /\ UNCHANGED uuids
    /\ ControlFrame

Commands == {"migrate", "info", "validate", "history", "clean"}

NextControl ==
    \/ CallConnect
    \/ CallDisconnect
    \/ CallInitializeControlTable
    \/ \E cmd \in {"migrate", "clean"} : CallStartExecution(cmd)
    \/ \E id \in 1..MaxExecs, n \in 0..1 : CallUpdateExecutionProgress(id, n, 0)
    \/ \E id \in 1..MaxExecs, status \in {"SUCCESS", "FAILED"} : CallCompleteExecution(id, status)
    \/ \E confirm \in BOOLEAN : CallCleanDatabaseSchemas(confirm)

SpecControl == InitControl /\ [][NextControl]_vars

(***************************************************************************)
(* The runner: one process per invocation of MigrationRunner.run, one      *)
(* invocation after another against the same stores.  A connect may fail;  *)
(* the operations of a migration may raise; an interrupt may arrive at     *)
(* any control point.                                                      *)
(***************************************************************************)
\* The directories of SpecRun: none, one or both of two files that carry the
\* same version, up to MaxRunFiles files.
RunFiles ==
    <<WithContent(CHOOSE f \in FileSet : f.name = "f1", ContentA),
      WithContent(CHOOSE f \in FileSet : f.name = "f5", ContentA)>>

RunDirectories == {SubSeq(RunFiles, 1, n) : n \in {k \in 0..Len(RunFiles) : k <= MaxRunFiles}}

InitRun ==
    /\ \E d1 \in RunDirectories, d2 \in RunDirectories :
          disk = [e \in Engines |-> IF e = "pg" THEN d1 ELSE d2]
    /\ tableExists = [e \in Engines |-> FALSE]
    /\ history = [e \in Engines |-> <<>>]
    /\ sent = [e \in Engines |-> <<>>]
    /\ appTables = AppTables
    /\ pc = "idle"
    /\ cur = "pg"
    /\ pending = <<>>
    /\ results = <<>>
    /\ hist0 = 0
    /\ sent0 = 0
    /\ valid = "none"
    /\ info = <<>>
    /\ edits = 0
    /\ RunnerOff
    /\ DocOff
    /\ RaceOff

Yes == <<"Y", "E", "S">>

Typed(text) == [kind |-> "text", text |-> text]

\* What input() gives at the prompt: a typed line, end of input, an interrupt.
Responses ==
    {Typed(Yes), Typed(<<" ">> \o Yes \o <<"\t">>), Typed(<<"y", "e", "s">>),
     Typed(Yes \o <<"!">>), Typed(<<"N", "O">>), Typed(<<>>),
     [kind |-> "eof", text |-> <<>>]}

InterruptAtPrompt == [kind |-> "interrupt", text |-> <<>>]

NoResponse == [kind |-> "none", text |-> <<>>]

\* _confirm_dangerous_operation taking everything but NO for a yes (a faulty variant).
ConfirmUnlessNo(r) == r.kind # "text" \/ Strip(r.text) # <<"N", "O">>

\* _confirm_dangerous_operation
ConfirmDangerousOperation(r) == r.kind = "text" /\ Strip(r.text) = Yes

\* _cleanup
Cleanup(c) == Disconnect(Disconnect(Disconnect(c, "ctl"), "pg"), "mongo")

\* The first k of the connects in whos succeed, one after the other.
RECURSIVE ConnectAll(_, _, _)
ConnectAll(c, whos, k) ==
    IF k = 0 \/ whos = <<>> THEN c
    ELSE ConnectAll(Connect(c, Head(whos), TRUE), Tail(whos), k - 1)

\* The body of the command starts here.
BodyEntry(cmd) ==
    CASE cmd = "migrate" -> "m_connect"
      [] cmd = "info" -> "i_body"
      [] cmd = "validate" -> "v_connect"
      [] cmd = "history" -> "h_body"
      [] cmd = "clean" -> "c_prompt"

AnyFailed(res) == \E i \in 1..Len(res) : ~res[i].successful

EngineIdle == pc' = "idle" /\ NoCall

EngineFrame == UNCHANGED <<raceVars, docVars, disk, tableExists, history, sent, edits>>

CallFrame == UNCHANGED <<pc, cur, pending, results, hist0, sent0, valid, info>>

\* A new process runs MigrationRunner(environment).run(command).
RunStart(cmd) ==
    /\ rpc \in {"off", "returned"}
    /\ runs < MaxRuns
    /\ runs' = runs + 1
    /\ command' = cmd
    /\ rpc' = "connect"
    /\ conn' = NoConnection
    /\ ctlRet' = Ret("none", "", "none", 0)
    /\ drops' = {}
    /\ executionId' = 0
    /\ result' = -1
    /\ exitCode' = -1
    /\ response' = NoResponse
    /\ interrupted' = FALSE
    /\ intStatus' = "none"
    /\ pgResults' = <<>>
    /\ EngineIdle
    /\ EngineFrame
    /\ UNCHANGED <<ctl, appTables, uuids>>

\* run: execution_control.connect(); initialize_control_table()
RunConnect ==
    /\ rpc = "connect"
    /\ \E ok \in BOOLEAN :
          /\ conn' = Connect(conn, "ctl", ok)
          /\ ctl' = IF ok THEN InitializeControlTable(ctl) ELSE ctl
          /\ rpc' = IF ok THEN "start" ELSE "except"
    /\ EngineFrame /\ CallFrame
    /\ UNCHANGED <<appTables, uuids, ctlRet, drops, command, executionId, result, exitCode,
                   response, interrupted, intStatus, runs, pgResults>>

\* start_execution inserting a second record (a faulty variant).
RowsStartedTwice(t, id, cmd) ==
    InsertExecution(InsertExecution(t, MigrationExecution(id, cmd)), MigrationExecution(id, cmd))

\* The control table after start_execution.
RowsStarted(t, id, cmd) == InsertExecution(t, MigrationExecution(id, cmd))

\* run: self.execution_id = start_execution(command, environment)
RunStartExecution ==
    /\ rpc = "start"
    /\ uuids' = uuids + 1
    /\ ctl' = RowsStarted(ctl, uuids + 1, command)
    /\ executionId' = uuids + 1
    /\ ctlRet' = Ret("start_execution", command, "id", uuids + 1)
    /\ rpc' = BodyEntry(command)
    /\ EngineFrame /\ CallFrame
    /\ UNCHANGED <<appTables, conn, drops, command, result, exitCode, response,
                   interrupted, intStatus, runs, pgResults>>

\* _execute_migrate: the three connects and initialize_control_table; a
\* failed connect raises out of _execute_migrate.
MigrateConnect ==
    /\ rpc = "m_connect"
    /\ \E k \in 0..3 :
          /\ conn' = ConnectAll(conn, <<"ctl", "pg", "mongo">>, k)
          /\ rpc' = IF k = 3 THEN "m_pg" ELSE "except"
    /\ EngineFrame /\ CallFrame
    /\ UNCHANGED <<ctl, appTables, uuids, ctlRet, drops, command, executionId, result,
                   exitCode, response, interrupted, intStatus, runs, pgResults>>

\* _execute_migrate: postgres_engine.execute_migrations() is called, runs
\* its loop.
MigratePg ==
    /\ rpc = "m_pg"
    /\ \/ pc = "idle" /\ ExecuteMigrations("pg", TRUE)
       \/ ExecuteSingleMigration

\* _execute_migrate leaving the command body when a relational result is a
\* failure (a faulty variant).
AfterPostgresStopOnFailure(pgRes) == IF AnyFailed(pgRes) THEN "except" ELSE "m_mongo"

\* Where _execute_migrate goes on when postgres_results is returned: to
\* mongodb_engine.execute_migrations(), whatever the results.
AfterPostgres(pgRes) == "m_mongo"

\* postgres_engine.execute_migrations() has returned postgres_results.
MigratePgReturned ==
    /\ rpc = "m_pg"
    /\ pc = "returned"
    /\ pgResults' = results
    /\ rpc' = AfterPostgres(results)
    /\ EngineIdle
    /\ EngineFrame
    /\ UNCHANGED <<storeVars, command, executionId, result, exitCode, response,
                   interrupted, intStatus, runs>>

\* _execute_migrate: mongodb_engine.execute_migrations() is called, runs its loop.
MigrateMongo ==
    /\ rpc = "m_mongo"
    /\ \/ pc = "idle" /\ ExecuteMigrations("mongo", TRUE)
       \/ ExecuteSingleMigration

\* The exit code _execute_migrate returns whatever the results (a faulty variant).
MigrateResultAlwaysZero(pgRes, mongoRes) == 0

\* _execute_migrate: 1 when a result of either engine is a failure, else 0.
MigrateResult(pgRes, mongoRes) == IF AnyFailed(pgRes) \/ AnyFailed(mongoRes) THEN 1 ELSE 0

\* _execute_migrate after mongodb_engine.execute_migrations() has returned:
\* update_execution_progress, then the check for failures.
MigrateProgress ==
    /\ rpc = "m_mongo"
    /\ pc = "returned"
    /\ ctl' = UpdateExecutionProgress(ctl, executionId, Len(pgResults), Len(results))
    /\ ctlRet' = Ret("update_execution_progress", "", "None", executionId)
    /\ result' = MigrateResult(pgResults, results)
    /\ rpc' = "complete"
    /\ EngineFrame /\ CallFrame
    /\ UNCHANGED <<appTables, conn, uuids, drops, command, executionId, exitCode, response,
                   interrupted, intStatus, runs, pgResults>>

\* An engine call raised: the exception leaves the command body.
EngineRaised ==
    /\ rpc \in {"m_pg", "m_mongo", "v_validate"}
    /\ pc = "raised"
    /\ rpc' = "except"
    /\ EngineFrame /\ CallFrame
    /\ UNCHANGED <<storeVars, command, executionId, result, exitCode, response,
                   interrupted, intStatus, runs, pgResults>>

\* _execute_info: the two connects, then get_migration_info of both engines,
\* which only read.
ExecuteInfo ==
    /\ rpc = "i_body"
    /\ \E k \in 0..2 :
          /\ conn' = ConnectAll(conn, <<"pg", "mongo">>, k)
          /\ IF k = 2 THEN result' = 0 /\ rpc' = "complete"
                      ELSE result' = result /\ rpc' = "except"
    /\ EngineFrame /\ CallFrame
    /\ UNCHANGED <<ctl, appTables, uuids, ctlRet, drops, command, executionId, exitCode,
                   response, interrupted, intStatus, runs, pgResults>>

\* _execute_validate: postgres_engine.connect()
ValidateConnect ==
    /\ rpc = "v_connect"
    /\ \E ok \in BOOLEAN :
          /\ conn' = Connect(conn, "pg", ok)
          /\ rpc' = IF ok THEN "v_validate" ELSE "except"
    /\ EngineFrame /\ CallFrame
    /\ UNCHANGED <<ctl, appTables, uuids, ctlRet, drops, command, executionId, result,
                   exitCode, response, interrupted, intStatus, runs, pgResults>>

\* _execute_validate: postgres_engine.validate_migrations()
ExecuteValidate ==
    /\ rpc = "v_validate"
    /\ pc = "idle"
    /\ Validate(TRUE)

\* _execute_validate: 0 when postgres_valid, else 1.
ValidateReturned ==
    /\ rpc = "v_validate"
    /\ pc = "validated"
    /\ result' = IF valid THEN 0 ELSE 1
    /\ rpc' = "complete"
    /\ EngineFrame /\ CallFrame
    /\ UNCHANGED <<storeVars, command, executionId, exitCode, response,
                   interrupted, intStatus, runs, pgResults>>

\* _execute_history: connect, initialize_control_table, get_execution_history.
ExecuteHistory ==
    /\ rpc = "h_body"
    /\ \E ok \in BOOLEAN :
          /\ conn' = Connect(conn, "ctl", ok)
          /\ IF ok THEN result' = 0 /\ rpc' = "complete"
                   ELSE result' = result /\ rpc' = "except"
    /\ EngineFrame /\ CallFrame
    /\ UNCHANGED <<ctl, appTables, uuids, ctlRet, drops, command, executionId, exitCode,
                   response, interrupted, intStatus, runs, pgResults>>

\* _execute_clean: what it returns when the confirmation is refused.
RefusedResult == 0

\* _execute_clean at the prompt: the operator answers, or the input ends.
CleanPrompt ==
    /\ rpc = "c_prompt"
    /\ \E r \in Responses :
          /\ response' = r
          /\ IF ConfirmDangerousOperation(r)
             THEN result' = result /\ rpc' = "c_clean"
             ELSE result' = RefusedResult /\ rpc' = "complete"
    /\ EngineFrame /\ CallFrame
    /\ UNCHANGED <<storeVars, command, executionId, exitCode, interrupted, intStatus,
                   runs, pgResults>>

\* An interrupt at the prompt: input() raises KeyboardInterrupt, which
\* _confirm_dangerous_operation catches.
CleanPromptInterrupt ==
    /\ rpc = "c_prompt"
    /\ response' = InterruptAtPrompt
    /\ interrupted' = TRUE
    /\ intStatus' = StatusOf(ctl, executionId)
    /\ IF ConfirmDangerousOperation(InterruptAtPrompt)
       THEN result' = result /\ rpc' = "c_clean"
       ELSE result' = RefusedResult /\ rpc' = "complete"
    /\ EngineFrame /\ CallFrame
    /\ UNCHANGED <<storeVars, command, executionId, exitCode, runs, pgResults>>

\* _execute_clean, confirmed: the two connects, clean_database_schemas(True),
\* then the collections, best effort.  An exception is caught and gives 1.
CleanConfirmed ==
    /\ rpc = "c_clean"
    /\ \E k \in 0..2 :
          /\ conn' = ConnectAll(conn, <<"ctl", "mongo">>, k)
          /\ IF k = 2
             THEN /\ \E mongoOk \in BOOLEAN :
                        DropTables(Drops(TRUE) \cup (IF mongoOk THEN {Collections} ELSE {}))
                  /\ ctlRet' = Ret("clean_database_schemas", "True", "True", 0)
                  /\ result' = 0
             ELSE /\ UNCHANGED <<ctl, tableExists, history, sent, appTables, drops, ctlRet>>
                  /\ result' = 1
    /\ rpc' = "complete"
    /\ CallFrame
    /\ UNCHANGED <<raceVars, docVars, disk, edits, uuids, command, executionId, exitCode, response,
                   interrupted, intStatus, runs, pgResults>>

\* run: the status for complete_execution.
FinalStatus(res) == IF res = 0 THEN "SUCCESS" ELSE "FAILED"

\* run: complete_execution(self.execution_id, status)
RunComplete ==
    /\ rpc = "complete"
    /\ IF CompleteRaises(ctl)
       THEN /\ rpc' = "except"
            /\ UNCHANGED <<ctl, ctlRet>>
       ELSE /\ ctl' = CompleteExecution(ctl, executionId, FinalStatus(result))
            /\ \E d \in Durations(ctl, executionId) :
                  ctlRet' = Ret("complete_execution", FinalStatus(result), "duration", d)
            /\ rpc' = "return"
    /\ EngineFrame /\ CallFrame
    /\ UNCHANGED <<appTables, conn, uuids, drops, command, executionId, result, exitCode,
                   response, interrupted, intStatus, runs, pgResults>>

\* run: return result, through the finally clause.
RunReturn ==
    /\ rpc = "return"
    /\ exitCode' = result
    /\ conn' = Cleanup(conn)
    /\ rpc' = "returned"
    /\ EngineFrame /\ CallFrame
    /\ UNCHANGED <<ctl, appTables, uuids, ctlRet, drops, command, executionId, result,
                   response, interrupted, intStatus, runs, pgResults>>

\* The status _handle_execution_failure writes.
FailureStatus == "FAILED"

\* The handlers of run: _handle_execution_failure completes the execution as
\* failed when there is an execution id, best effort; then the exit code,
\* through the finally clause.
Handle(code) ==
    /\ IF executionId # 0
       THEN \E ok \in ConnectOutcomes :
              /\ ctl' = IF ok THEN CompleteExecution(ctl, executionId, FailureStatus) ELSE ctl
              /\ conn' = Cleanup(ConnectIfNone(conn, "ctl", ok))
       ELSE /\ ctl' = ctl
            /\ conn' = Cleanup(conn)
    /\ exitCode' = code
    /\ rpc' = "returned"
    /\ EngineFrame /\ CallFrame
    /\ UNCHANGED <<appTables, uuids, ctlRet, drops, command, executionId, result,
                   response, interrupted, intStatus, runs, pgResults>>

\* except Exception: return 1
HandleException == rpc = "except" /\ Handle(1)

\* except KeyboardInterrupt: return 130
HandleInterrupt == rpc = "except_kbd" /\ Handle(130)

InterruptPoints ==
    {"connect", "start", "m_connect", "m_pg", "m_mongo", "i_body", "v_connect",
     "v_validate", "h_body", "c_clean", "complete", "return"}

\* An interrupt arrives: KeyboardInterrupt passes every "except Exception"
\* and reaches the handler of run; an engine call in progress is abandoned.
Interrupt ==
    /\ rpc \in InterruptPoints
    /\ interrupted' = TRUE
    /\ intStatus' = StatusOf(ctl, executionId)
    /\ rpc' = "except_kbd"
    /\ pc' = IF pc = "loop" THEN "raised" ELSE pc
    /\ EngineFrame
    /\ UNCHANGED <<cur, pending, results, hist0, sent0, valid, info>>
    /\ UNCHANGED <<storeVars, command, executionId, result, exitCode, response, runs,
                   pgResults>>

NextRun ==
    \/ \E cmd \in Commands : RunStart(cmd)
    \/ RunConnect
    \/ RunStartExecution
    \/ MigrateConnect
    \/ MigratePg
    \/ MigratePgReturned
    \/ MigrateMongo
    \/ MigrateProgress
    \/ EngineRaised
    \/ ExecuteInfo
    \/ ValidateConnect
    \/ ExecuteValidate
    \/ ValidateReturned
    \/ ExecuteHistory
    \/ CleanPrompt
    \/ CleanPromptInterrupt
    \/ CleanConfirmed
    \/ RunComplete
    \/ RunReturn
    \/ HandleException
    \/ HandleInterrupt
    \/ Interrupt

SpecRun == InitRun /\ [][NextRun]_vars

(***************************************************************************)
(* Properties.                                                             *)
(***************************************************************************)
VersionsIn(rows) == {rows[i].version : i \in 1..Len(rows)}

\* A step that computes a pending list: get_pending_migrations on its own or
\* at the start of execute_migrations.
PlanStep == pc # "loop" /\ pc' \in {"planned", "loop", "returned"}

\* C1: fail-fast.  When execute_migrations returns, its results are the
\* results of a prefix of the pending list, in order; every result but the
\* last is successful; the list stops short of the pending list only after a
\* failed result; exactly the scripts of that prefix were sent to the store,
\* and the history gained exactly one record per result, with the result's
\* version and outcome.  So with pending [A, B, C] and B raising, the results
\* are [A successful, B failed], C is not sent and two records are added.
FailFast ==
    pc = "returned" =>
        LET n == Len(results)
            e == cur
        IN  /\ n <= Len(pending)
            /\ \A i \in 1..n :
                  /\ results[i].version = pending[i].version
                  /\ results[i].script = pending[i].filename
                  /\ i < n => results[i].successful
            /\ n < Len(pending) => (n >= 1 /\ ~results[n].successful)
            /\ Len(sent[e]) = sent0 + n
            /\ \A i \in 1..n : sent[e][sent0 + i].script = pending[i].filename
            /\ Len(history[e]) = hist0 + n
            /\ \A i \in 1..n :
                  /\ history[e][hist0 + i].version = pending[i].version
                  /\ history[e][hist0 + i].script = pending[i].filename
                  /\ history[e][hist0 + i].success = results[i].successful

\* C1 witness: a relational run with three pending descriptors returned
\* [successful, failed].
FailFastWitness ==
    /\ pc = "returned"
    /\ cur = "pg"
    /\ Len(pending) = 3
    /\ Len(results) = 2
    /\ results[1].successful
    /\ ~results[2].successful
    /\ Len(history["pg"]) = hist0 + 2

\* C2: no double-application.  A pending list never holds a descriptor whose
\* version had a history record when the list was computed.
NoDoubleApplication ==
    [][PlanStep =>
          \A i \in 1..Len(pending') : pending'[i].version \notin VersionsIn(history[cur'])]_vars

\* C3: at-most-once application per version.  No store has been sent the
\* operations of one version twice, and no history holds two records of one
\* version.
AtMostOncePerVersion ==
    \A e \in Engines :
        /\ \A i, j \in 1..Len(sent[e]) : sent[e][i].version = sent[e][j].version => i = j
        /\ \A i, j \in 1..Len(history[e]) :
              history[e][i].version = history[e][j].version => i = j

\* The relational directory holds two scripts with different versions.
TwoScripts ==
    /\ Len(disk["pg"]) = 2
    /\ disk["pg"][1].version # disk["pg"][2].version

\* The relational history holds two success records, ranks 1 and 2, for the
\* two scripts of the directory in version order.
TwoSuccessRecords ==
    LET h == history["pg"]
        d == DiscoverMigrations("pg", disk["pg"])
    IN  /\ Len(h) = 2
        /\ \A i \in 1..2 :
              /\ h[i].installed_rank = i
              /\ h[i].success
              /\ h[i].version = d[i].version
              /\ h[i].script = d[i].filename
        /\ TupleLess(VersionToTuple(h[1].version), VersionToTuple(h[2].version))

\* C4: the two-script scenario.  A relational run that started on an empty
\* history with two scripts and returned two successful results sent the two
\* scripts in version order and left two success records with ranks 1 and 2;
\* a run that starts on that history finds nothing pending, returns at once,
\* sends nothing and adds no record.
TwoScriptScenario ==
    [][/\ ( /\ TwoScripts'
            /\ pc' = "returned"
            /\ cur' = "pg"
            /\ hist0' = 0
            /\ Len(results') = 2
            /\ \A i \in 1..2 : results'[i].successful )
          => /\ TwoSuccessRecords'
             /\ Len(sent'["pg"]) = 2
             /\ \A i \in 1..2 : sent'["pg"][i].script = history'["pg"][i].script
       /\ ( /\ TwoScripts
            /\ TwoSuccessRecords
            /\ pc # "loop"
            /\ pc' \in {"loop", "returned", "raised"}
            /\ cur' = "pg" )
          => /\ pc' = "returned"
             /\ pending' = <<>>
             /\ results' = <<>>
             /\ history' = history
             /\ sent' = sent]_vars

\* C4 witness: the second run has returned with nothing pending on the two
\* success records.
TwoScriptScenarioWitness ==
    /\ TwoScripts
    /\ TwoSuccessRecords
    /\ pc = "returned"
    /\ cur = "pg"
    /\ hist0 = 2
    /\ pending = <<>>
    /\ results = <<>>
    /\ Len(sent["pg"]) = 2

\* C2 witness: a pending list computed after the directory changed, for a
\* directory with a file whose version has a history record.
NoDoubleApplicationWitness ==
    /\ pc = "planned"
    /\ edits = 1
    /\ pending # <<>>
    /\ \E i \in 1..Len(disk[cur]) : disk[cur][i].version \in VersionsIn(history[cur])

\* The k-th smallest element of a set of integers.
KthSmallest(S, k) == CHOOSE x \in S : Cardinality({y \in S : y < x}) = k - 1

\* The checksum of a descriptor and of a record denote different values.
ChecksumValueDiffers(e, m, r) ==
    IF e = "pg" THEN ParseInt(m.checksum.val) # r.checksum.val
    ELSE m.checksum.val # r.checksum.val

\* Component-wise numeric order of two well-formed version tokens: a <= b.
NumericComponents(version) ==
    LET parts == Split(version)
    IN  [i \in 1..Len(parts) |-> DecimalValue(parts[i], Len(parts[i]))]

RECURSIVE ComponentwiseLeq(_, _)
ComponentwiseLeq(a, b) ==
    IF a = <<>> THEN TRUE
    ELSE IF b = <<>> THEN FALSE
    ELSE IF Head(a) < Head(b) THEN TRUE
    ELSE IF Head(a) > Head(b) THEN FALSE
    ELSE ComponentwiseLeq(Tail(a), Tail(b))

VersionLeq(v, w) == ComponentwiseLeq(NumericComponents(v), NumericComponents(w))

Ascending(ms) ==
    \A i, j \in 1..Len(ms) : i < j => VersionLeq(ms[i].version, ms[j].version)

\* C5: the pending list get_pending_migrations returns is the discovered list
\* without the descriptors whose version is the version of a history record,
\* whatever the checksums, in the version-ascending order of discovery.
PendingIsDiscoveredMinusApplied ==
    pc = "planned" =>
        LET d == DiscoverMigrations(cur, disk[cur])
            kept == {i \in 1..Len(d) : d[i].version \notin VersionsIn(history[cur])}
        IN  /\ Len(pending) = Cardinality(kept)
            /\ \A k \in 1..Len(pending) : pending[k] = d[KthSmallest(kept, k)]
            /\ Ascending(pending)

\* C5 witness: a pending list that leaves out a descriptor whose checksum
\* differs from the checksum of its record, and keeps another descriptor.
PendingIsDiscoveredMinusAppliedWitness ==
    /\ pc = "planned"
    /\ pending # <<>>
    /\ \E i \in 1..Len(disk[cur]) : \E j \in 1..Len(history[cur]) :
          /\ history[cur][j].version = disk[cur][i].version
          /\ ChecksumValueDiffers(cur, Script(cur, disk[cur][i]), history[cur][j])
          /\ \A k \in 1..Len(pending) : pending[k].filename # disk[cur][i].name

\* C6: planning is idempotent and free of side effects.  A call of
\* get_pending_migrations changes neither the history nor the store nor the
\* directory, and a call that follows another one for the same engine returns
\* the list the first one returned.
PlanningIdempotent ==
    [][pc' = "planned" =>
          /\ history' = history
          /\ sent' = sent
          /\ tableExists' = tableExists
          /\ disk' = disk
          /\ (pc = "planned" /\ cur' = cur) => pending' = pending]_vars

\* C6 witness: a plan with a pending descriptor and a history record.
PlanningIdempotentWitness ==
    /\ pc = "planned"
    /\ pending # <<>>
    /\ history[cur] # <<>>

VersionsOf(ms) == [i \in 1..Len(ms) |-> ms[i].version]

V12 == <<"1", ".", "2">>
V121 == <<"1", ".", "2", ".", "1">>
V110 == <<"1", ".", "1", "0">>
V20 == <<"2", ".", "0">>

\* C7: discovery returns one descriptor per file, in component-wise numeric
\* order of the versions, whatever the enumeration order of the directory;
\* the versions 1.2, 1.10, 2.0, 1.2.1 come out as 1.2, 1.2.1, 1.10, 2.0.
DiscoverySorted ==
    pc = "scanned" =>
        /\ Len(pending) = Len(disk[cur])
        /\ {pending[i].filename : i \in 1..Len(pending)} = Names(disk[cur])
        /\ Ascending(pending)
        /\ Range(VersionsOf(disk[cur])) = {V12, V121, V110, V20} /\ Len(disk[cur]) = 4
              => VersionsOf(pending) = <<V12, V121, V110, V20>>

\* C7 witness: the four versions enumerated as 2.0, 1.10, 1.2.1, 1.2 and scanned.
DiscoverySortedWitness ==
    /\ pc = "scanned"
    /\ VersionsOf(disk[cur]) = <<V20, V110, V121, V12>>
    /\ VersionsOf(pending) = <<V12, V121, V110, V20>>

\* The applied record r and the discovered descriptor m are a pair of C8:
\* same version.
MatchedPairs ==
    LET h == history["pg"]
        d == DiscoverMigrations("pg", disk["pg"])
    IN  {<<i, j>> \in (1..Len(h)) \X (1..Len(d)) : h[i].version = d[j].version}

\* C8: validate_migrations returns true exactly when, for every applied
\* record and discovered descriptor of one version, the stored checksum
\* equals the freshly computed one.
ValidateDetectsDrift ==
    pc = "validated" =>
        (valid <=> \A p \in MatchedPairs :
                      ~ChecksumValueDiffers("pg",
                            DiscoverMigrations("pg", disk["pg"])[p[2]], history["pg"][p[1]]))

\* C9: validate_migrations returns true when every applied record either has
\* no discovered descriptor of its version or has the checksum of its
\* descriptor.
ValidateIgnoresUnmatched ==
    pc = "validated" =>
        ((\A p \in MatchedPairs :
              ~ChecksumValueDiffers("pg",
                    DiscoverMigrations("pg", disk["pg"])[p[2]], history["pg"][p[1]]))
            => valid = TRUE)

\* C10: validate_migrations leaves the history as it was, whatever it returns.
ValidateKeepsHistory ==
    [][pc' = "validated" =>
          /\ history' = history
          /\ tableExists' = tableExists
          /\ sent' = sent]_vars

\* C10 witness: validate_migrations returned false on a history with records.
ValidateKeepsHistoryWitness ==
    /\ pc = "validated"
    /\ valid = FALSE
    /\ history["pg"] # <<>>

\* validate_migrations returned true on a history whose records have no file.
ValidateTrueOnUnmatched ==
    /\ pc = "validated"
    /\ valid = TRUE
    /\ history["pg"] # <<>>

\* C11: clean_database_schemas(confirm=False) returns False, issues no drop,
\* opens no connection and leaves every table as it was;
\* clean_database_schemas(confirm=True), when it returns, returns True and has
\* dropped the control table, the relational history table and the
\* application tables, and it raises only when it could not connect.
CleanNeedsConfirm ==
    [][ctlRet'.call = "clean_database_schemas" =>
          IF ctlRet'.arg = "False"
          THEN /\ ctlRet'.kind = "False"
               /\ drops' = drops
               /\ conn' = conn
               /\ ctl' = ctl
               /\ appTables' = appTables
               /\ tableExists' = tableExists
               /\ history' = history
          ELSE /\ ctlRet'.kind \in {"True", "raised"}
               /\ ctlRet'.kind = "raised" => conn'.ctl = 0
               /\ ctlRet'.kind = "True" =>
                     /\ ctl' = NoControlTable
                     /\ ~tableExists'["pg"]
                     /\ history'["pg"] = <<>>
                     /\ appTables' = {}
                     /\ drops' = drops \cup {ControlTable, HistoryTable} \cup AppTables]_vars

\* C11 witness: a confirmed clean has returned True on a store in which an
\* execution had been started, and nothing of the store is left.
CleanNeedsConfirmWitness ==
    /\ ctlRet = Ret("clean_database_schemas", "True", "True", 0)
    /\ uuids > 0
    /\ ctl = NoControlTable
    /\ appTables = {}

\* An unconfirmed clean has returned False on a store with a control record,
\* a history record and application tables.
CleanRefusedWitness ==
    /\ ctlRet = Ret("clean_database_schemas", "False", "False", 0)
    /\ ctl.rows # <<>>
    /\ history["pg"] # <<>>
    /\ appTables = AppTables

\* The operator typed YES, whitespace around it aside.
IsYes(r) == r.kind = "text" /\ Strip(r.text) = <<"Y", "E", "S">>

\* A step that destroys something: a drop is issued, a table or collection
\* goes away, history records or execution records go away.
Destroys ==
    \/ drops' # drops /\ drops' # {}
    \/ ctl.exists /\ ~ctl'.exists
    \/ Len(ctl'.rows) < Len(ctl.rows)
    \/ appTables' # appTables
    \/ \E e \in Engines : tableExists[e] /\ ~tableExists'[e]
    \/ \E e \in Engines : Len(history'[e]) < Len(history[e])

\* C12: in the clean command nothing is dropped unless the operator's
\* response, stripped of whitespace, is exactly YES: every step of an
\* invocation that issues a drop or removes a table, a collection or a
\* record belongs to a clean whose response was YES; any other response, the
\* end of input or an interrupt at the prompt is followed by no such step.
NoDropWithoutYes ==
    [][Destroys => command = "clean" /\ IsYes(response)]_vars

\* C12 witness: a clean answered with " YES<tab>" has dropped the tables.
NoDropWithoutYesWitness ==
    /\ command = "clean"
    /\ response = Typed(<<" ", "Y", "E", "S", "\t">>)
    /\ {ControlTable, HistoryTable} \subseteq drops
    /\ ~ctl.exists

\* C13: a clean whose confirmation is not given ends with a non-zero exit
\* code and its execution record is not SUCCESS.
RefusedCleanFails ==
    rpc = "returned" /\ command = "clean" /\ ~IsYes(response)
        => exitCode # 0 /\ StatusOf(ctl, executionId) # "SUCCESS"

StatusMoves == {<<"STARTED", "IN_PROGRESS">>, <<"IN_PROGRESS", "SUCCESS">>,
                <<"IN_PROGRESS", "FAILED">>}

\* C14: the status of an execution record changes only from STARTED to
\* IN_PROGRESS and from IN_PROGRESS to SUCCESS or FAILED, for every command.
StatusMovesForward ==
    [][\A id \in 1..uuids :
          LET a == StatusOf(ctl, id)
              b == StatusOf(ctl', id)
          IN  a # "none" /\ b # "none" /\ a # b => <<a, b>> \in StatusMoves]_vars

\* C15: an invocation interrupted while its execution record was STARTED or
\* IN_PROGRESS leaves the record CANCELLED.
InterruptCancels ==
    rpc = "returned" /\ intStatus \in {"STARTED", "IN_PROGRESS"}
        => StatusOf(ctl, executionId) = "CANCELLED"

\* C16: an invocation during which an interrupt arrived, at the confirmation
\* prompt too, returns 130.
InterruptExits130 == rpc = "returned" /\ interrupted => exitCode = 130

\* Every result of both engines is successful and _execute_migrate returned.
AllSuccessful == result # -1 /\ ~AnyFailed(pgResults) /\ ~AnyFailed(results)

\* C17: a migrate invocation that is not interrupted returns 0 exactly when
\* no exception was raised and every result of both engines is successful,
\* and 1 otherwise; its execution record ends SUCCESS when the exit code is
\* 0 and FAILED when it is 1.
MigrateExitCode ==
    rpc = "returned" /\ command = "migrate" /\ ~interrupted =>
        /\ exitCode \in {0, 1}
        /\ exitCode = 0 <=> AllSuccessful
        /\ executionId # 0 =>
              StatusOf(ctl, executionId) = IF exitCode = 0 THEN "SUCCESS" ELSE "FAILED"

\* C17 witness: a migrate whose relational script succeeded and whose
\* document migration failed has returned 1.
MigrateExitCodeWitness ==
    /\ rpc = "returned" /\ command = "migrate" /\ ~interrupted
    /\ pgResults # <<>> /\ ~AnyFailed(pgResults)
    /\ cur = "mongo" /\ AnyFailed(results)
    /\ result = 1 /\ exitCode = 1
    /\ StatusOf(ctl, executionId) = "FAILED"

\* C18: a confirmed clean that dropped the control table and was not
\* interrupted: complete_execution raised nothing and returned duration 0,
\* and the invocation returns 0.
CleanCompletesSoftly ==
    rpc = "returned" /\ command = "clean" /\ ControlTable \in drops /\ ~interrupted =>
        /\ ctlRet = Ret("complete_execution", "SUCCESS", "duration", 0)
        /\ exitCode = 0
        /\ ~ctl.exists

\* C18 witness: the second invocation is a confirmed clean of a store that
\* held the first one's record, and it has returned 0.
CleanCompletesSoftlyWitness ==
    /\ rpc = "returned" /\ command = "clean" /\ ControlTable \in drops
    /\ runs = 2 /\ uuids = 2
    /\ exitCode = 0

ExecutionIds(t) == {t.rows[i].execution_id : i \in 1..Len(t.rows)}

\* C19: the step of an invocation from control-table initialization into the
\* command body inserts one execution record, with an id no record has and
\* status STARTED, and makes it the invocation's id; no other step adds a
\* record, and the steps of execute_migrations and validate_migrations leave
\* the control table as it was.
OneExecutionRecord ==
    [][/\ rpc = "start" /\ rpc' # "except_kbd" =>
             /\ Len(ctl'.rows) = Len(ctl.rows) + 1
             /\ SubSeq(ctl'.rows, 1, Len(ctl.rows)) = ctl.rows
             /\ ctl'.rows[Len(ctl'.rows)].status = "STARTED"
             /\ ctl'.rows[Len(ctl'.rows)].command = command
             /\ ctl'.rows[Len(ctl'.rows)].execution_id \notin ExecutionIds(ctl)
             /\ executionId' = ctl'.rows[Len(ctl'.rows)].execution_id
             /\ rpc' = BodyEntry(command)
       /\ rpc # "start" => Len(ctl'.rows) <= Len(ctl.rows)
       /\ rpc \in {"m_pg", "m_mongo", "v_validate"} /\ rpc' = rpc => ctl' = ctl]_vars

\* C19 witness: the second invocation enters the body of migrate with its
\* own STARTED record after the record of the first.
OneExecutionRecordWitness ==
    /\ rpc = "m_connect"
    /\ runs = 2
    /\ Len(ctl.rows) = 2
    /\ ctl.rows[2].status = "STARTED"
    /\ ctl.rows[2].execution_id = executionId
    /\ ctl.rows[1].execution_id # executionId

\* C20: when run has returned, every connection the process opened is closed.
AllConnectionsClosed == rpc = "returned" => conn.open = {}

\* The descriptor the next iteration of the loop of execute_migrations applies.
NextPending == pending[Len(results) + 1]

\* C21: the history is append-only under execute_migrations.  Every iteration
\* of the loop, which attempts one descriptor, adds exactly one record to the
\* history of the engine, the record of that descriptor, after the records
\* that were there, and leaves the other history alone; no other step but the
\* confirmed clean changes a history.
HistoryAppendOnly ==
    [][/\ pc = "loop" =>
             /\ Len(history'[cur]) = Len(history[cur]) + 1
             /\ SubSeq(history'[cur], 1, Len(history[cur])) = history[cur]
             /\ history'[cur][Len(history'[cur])].version = NextPending.version
             /\ \A e \in Engines \ {cur} : history'[e] = history[e]
       /\ (pc # "loop" /\ pc' # "cleaned") => history' = history]_vars

\* C22: the ranks of the relational history are pairwise distinct and the
\* i-th record inserted has rank i, so n records have the ranks 1..n.
RanksAreOneToN ==
    LET h == history["pg"]
    IN  /\ \A i, j \in 1..Len(h) : h[i].installed_rank = h[j].installed_rank => i = j
        /\ \A i \in 1..Len(h) : h[i].installed_rank = i

\* C22 witness: three relational records, the first of them a failure.
RanksAreOneToNWitness ==
    /\ Len(history["pg"]) = 3
    /\ ~history["pg"][1].success
    /\ history["pg"][3].installed_rank = 3

\* C23: an iteration of the loop never leaves execute_migrations by an
\* exception: it appends one result, and a failed result comes with a failed
\* record of its version.
FailureNeverEscapes ==
    [][pc = "loop" =>
          /\ pc' \in {"loop", "returned"}
          /\ Len(results') = Len(results) + 1
          /\ LET r == results'[Len(results')]
                 h == history'[cur]
             IN  ~r.successful =>
                    /\ h # <<>>
                    /\ h[Len(h)].version = r.version
                    /\ ~h[Len(h)].success]_vars

\* C24: the history store of each engine is unique on version: a record that
\* enters an initialized history has a version no record of it has.
VersionUniqueInStore ==
    [][\A e \in Engines :
          (tableExists[e] /\ Len(history'[e]) = Len(history[e]) + 1)
              => history'[e][Len(history'[e])].version \notin VersionsIn(history[e])]_vars

\* C25: the operations of a descriptor are sent to the store only when every
\* discovered descriptor with a lower version has a success record.
AppliedOnSuccessfulPredecessors ==
    [][pc = "loop" =>
          LET d == DiscoverMigrations(cur, disk[cur])
              h == history[cur]
          IN  \A i \in 1..Len(d) :
                  TupleLess(KeyOf(d[i].version), KeyOf(NextPending.version))
                      => \E j \in 1..Len(h) : h[j].version = d[i].version /\ h[j].success]_vars

\* A dotted-integer version string: decimal digits in pieces separated by dots.
DottedInteger(version) ==
    /\ version.type = "str"
    /\ LET parts == Split(version.val)
       IN  \A i \in 1..Len(parts) :
              /\ parts[i] # <<>>
              /\ \A k \in 1..Len(parts[i]) : IsDigit(parts[i][k])

\* A well-formed file: JSON, with both required keys and a dotted-integer version.
WellFormedJson(f) ==
    f.parses /\ f.hasVersion /\ f.hasDescription /\ DottedInteger(f.version)

\* A file that is well-formed but for its version, a string that is not a
\* dotted integer.
MalformedVersionString(f) ==
    /\ f.parses /\ f.hasVersion /\ f.hasDescription
    /\ f.version.type = "str"
    /\ ~DottedInteger(f.version)

FoundNames == {found.migrations[i].filename : i \in 1..Len(found.migrations)}

PositionOf(name) == CHOOSE i \in 1..Len(found.migrations) : found.migrations[i].filename = name

\* C26: discovery of the document engine never aborts: whatever the mix of
\* files, the call returns, and what it returns holds the descriptor of
\* every well-formed file.
DiscoveryNeverAborts ==
    found.state # "none" =>
        /\ found.state = "returned"
        /\ \A i \in 1..Len(jsonDir) :
              WellFormedJson(jsonDir[i]) => jsonDir[i].name \in FoundNames

\* C27: in what discovery returns, the descriptor of a file with a malformed
\* version string is kept, and it stands before every descriptor with a
\* well-formed version of another key; on a directory whose versions are all
\* strings the sort does not raise.
MalformedSortsFirst ==
    /\ found.state = "returned" =>
          \A i, j \in 1..Len(jsonDir) :
              (MalformedVersionString(jsonDir[i]) /\ WellFormedJson(jsonDir[j])) =>
                  /\ jsonDir[i].name \in FoundNames
                  /\ jsonDir[j].name \in FoundNames
                  /\ PositionOf(jsonDir[i].name) < PositionOf(jsonDir[j].name)
    /\ (found.state # "none" /\ \A i \in 1..Len(jsonDir) : jsonDir[i].version.type = "str")
          => found.state = "returned"

\* The lines of a text, a line ending at "\r\n", at "\r" or at "\n".
RECURSIVE LinesOf(_, _)
LinesOf(bytes, line) ==
    IF bytes = <<>> THEN <<line>>
    ELSE IF Len(bytes) >= 2 /\ bytes[1] = CR /\ bytes[2] = LF
         THEN <<line>> \o LinesOf(SubSeq(bytes, 3, Len(bytes)), <<>>)
    ELSE IF bytes[1] \in {CR, LF}
         THEN <<line>> \o LinesOf(Tail(bytes), <<>>)
    ELSE LinesOf(Tail(bytes), Append(line, bytes[1]))

\* C28: the relational checksum is a function of the line-ending-normalized
\* content: two contents with the same lines, whatever the terminator of each
\* line, get the same checksum, and so does one content computed twice.
ChecksumIgnoresLineEndings ==
    sums # <<>> =>
        (LinesOf(texts[1], <<>>) = LinesOf(texts[2], <<>>) => sums[1] = sums[2])

\* C28 witness: "a\r\n" and "a\r" have been given one checksum.
ChecksumIgnoresLineEndingsWitness ==
    /\ sums # <<>>
    /\ texts[1] = <<97, CR, LF>>
    /\ texts[2] = <<97, CR>>
    /\ sums[1] = sums[2]

PhaseRank(ph) == CHOOSE i \in 1..4 : PhaseOrder[i] = ph

\* The operations of one phase among the applied ones, in order of application.
AppliedOf(ph) ==
    LET l == SelectSeq(mlog, LAMBDA x : x.phase = ph)
    IN  [i \in 1..Len(l) |-> l[i].op]

\* C29: a document migration applies its phases in the order collections,
\* indexes, data, aggregations, whatever the order of the keys in the file:
\* no operation is applied after one of a later phase, the operations of a
\* phase are applied in the order listed, a successful migration has applied
\* them all, and a failed one has applied the phases before the failing one
\* in full, a proper part of the failing phase and nothing of the later ones,
\* the store being as the last applied operation left it.
PhasesInFixedOrder ==
    mout.state = "returned" =>
        /\ \A i, j \in 1..Len(mlog) :
              i < j => PhaseRank(mlog[i].phase) <= PhaseRank(mlog[j].phase)
        /\ \A ph \in Phases :
              /\ Len(AppliedOf(ph)) <= Len(mig.ops[ph])
              /\ AppliedOf(ph) = SubSeq(mig.ops[ph], 1, Len(AppliedOf(ph)))
        /\ mout.result.successful =>
              \A ph \in Phases : AppliedOf(ph) = mig.ops[ph]
        /\ ~mout.result.successful =>
              \E ph \in Phases :
                  /\ Len(AppliedOf(ph)) < Len(mig.ops[ph])
                  /\ \A q \in Phases :
                        /\ PhaseRank(q) < PhaseRank(ph) => AppliedOf(q) = mig.ops[q]
                        /\ PhaseRank(q) > PhaseRank(ph) => AppliedOf(q) = <<>>
        /\ mstore = IF mlog = <<>> THEN mout.before ELSE mlog[Len(mlog)].after
        /\ mout.before.collections \subseteq mstore.collections

\* C29 witness: the keys are written in the reverse order, the second data
\* operation raised: the collection was created, then the index, then the
\* first data operation was applied, the aggregation was not, and the
\* collection is still there.
PhasesInFixedOrderWitness ==
    /\ mout.state = "returned"
    /\ ~mout.result.successful
    /\ mig.keys = <<"aggregations", "data", "indexes", "collections">>
    /\ Len(mig.ops["data"]) = 2
    /\ Len(mlog) = 3
    /\ mlog[1].phase = "collections"
    /\ mlog[2].phase = "indexes"
    /\ mlog[3].phase = "data"
    /\ mout.before.collections = {}
    /\ mstore.collections = {"c"}

RECURSIVE SumEffects(_)
SumEffects(log) == IF log = <<>> THEN 0 ELSE Head(log).effect + SumEffects(Tail(log))

\* C30: for a successful document migration the operations_count of the
\* result and that of the history record are both the sum, over the applied
\* operations, of the collections created, the indexes created, the
\* documents inserted, modified or deleted and the documents returned.
OperationsCountIsSum ==
    (mout.state = "returned" /\ mout.result.successful) =>
        /\ mout.result.operations_count = SumEffects(mlog)
        /\ mout.record.operations_count = SumEffects(mlog)

\* C31: a read of the relational history while its table does not exist
\* returns the empty list and does not raise: get_pending_migrations then
\* returns every discovered descriptor, and get_migration_info reports every
\* discovered descriptor as Pending.
MissingTableReadsEmpty ==
    [][(/\ pc # "loop"
        /\ ~tableExists["pg"]
        /\ cur' = "pg"
        /\ pc' \in {"planned", "informed", "raised"})
          => LET d == DiscoverMigrations("pg", disk["pg"])
             IN  /\ pc' # "raised"
                 /\ pc' = "planned" => pending' = d
                 /\ pc' = "informed" =>
                       /\ Len(info') = Len(d)
                       /\ \A i \in 1..Len(d) :
                             /\ info'[i].version = d[i].version
                             /\ info'[i].status = "Pending"]_vars

\* C31 witness: get_migration_info has returned three Pending entries for a
\* relational store without history table.
MissingTableReadsEmptyWitness ==
    /\ pc = "informed"
    /\ cur = "pg"
    /\ ~tableExists["pg"]
    /\ Len(disk["pg"]) = 3
    /\ Len(info) = 3
    /\ \A i \in 1..3 : info[i].status = "Pending"

\* An applied document migration whose recorded checksum differs from the
\* checksum of its current file.
DocumentDrift ==
    LET h == history["mongo"]
        d == DiscoverMigrations("mongo", disk["mongo"])
    IN  \E i \in 1..Len(h), j \in 1..Len(d) :
            /\ h[i].success
            /\ h[i].version = d[j].version
            /\ ChecksumValueDiffers("mongo", d[j], h[i])

\* C32: the validate command detects drift in the document engine too: when
\* it has validated while an applied document migration differs from its
\* file, its verdict is failure.
ValidateDetectsDocumentDrift ==
    (pc = "validated" /\ DocumentDrift) => valid = FALSE

\* The records of a version are all failures, and there is one.
FailedOnly(rows, version) ==
    /\ version \in VersionsIn(rows)
    /\ \A i \in 1..Len(rows) : rows[i].version = version => ~rows[i].success

\* C33: a version whose records are all failures counts as applied: no
\* pending list holds it and its operations are not sent again; the
\* discovered descriptors whose version has no record, those fail-fast
\* skipped among them, are all in the pending list a later run computes.
FailedCountsAsApplied ==
    [][/\ PlanStep =>
             LET h == history'[cur']
                 d == DiscoverMigrations(cur', disk'[cur'])
             IN  /\ \A i \in 1..Len(pending') : ~FailedOnly(h, pending'[i].version)
                 /\ \A j \in 1..Len(d) :
                       d[j].version \notin VersionsIn(h)
                           => \E i \in 1..Len(pending') : pending'[i] = d[j]
       /\ pc = "loop" => ~FailedOnly(history[cur], NextPending.version)]_vars

\* C33 witness: the first run stopped at the failure of 1.2 and skipped 2.0;
\* the next run of the relational engine starts with 2.0 alone pending.
FailedCountsAsAppliedWitness ==
    /\ pc = "loop"
    /\ cur = "pg"
    /\ Len(disk["pg"]) = 2
    /\ Len(history["pg"]) = 1
    /\ ~history["pg"][1].success
    /\ history["pg"][1].version = V12
    /\ Len(pending) = 1
    /\ pending[1].version = V20
    /\ results = <<>>

\* C34: a terminal status is final: once the record of an execution is
\* SUCCESS or FAILED, no step writes another status into it.
TerminalStatusFinal ==
    [][\A id \in 1..uuids :
          LET a == StatusOf(ctl, id)
              b == StatusOf(ctl', id)
          IN  (a \in {"SUCCESS", "FAILED"} /\ b # "none") => b = a]_vars

\* C35: in the migrate command the document engine's execute_migrations is
\* called after the relational engine's has returned, failed results or not,
\* and only then; the command leaves the relational call otherwise only by
\* an exception of the engine or an interrupt.
DocumentEngineRunsAfterRelational ==
    [][/\ (rpc = "m_pg" /\ pc = "returned" /\ rpc' \notin {"m_pg", "except_kbd"})
             => rpc' = "m_mongo" /\ pgResults' = results
       /\ (rpc = "m_pg" /\ rpc' \notin {"m_pg", "m_mongo"})
             => \/ rpc' = "except_kbd"
                \/ rpc' = "except" /\ pc = "raised"
       /\ (rpc # "m_mongo" /\ rpc' = "m_mongo") => (rpc = "m_pg" /\ pc = "returned")
       /\ (rpc = "m_mongo" /\ pc = "idle" /\ rpc' # "except_kbd")
             => cur' = "mongo" /\ pc' \in {"loop", "returned"}
       /\ (cur' = "mongo" /\ pc' = "loop") => rpc' = "m_mongo"]_vars

\* C35 witness: a relational result is a failure and the document engine has
\* applied a migration in the same invocation.
DocumentEngineRunsAfterRelationalWitness ==
    /\ rpc = "m_mongo"
    /\ cur = "mongo"
    /\ pc = "returned"
    /\ AnyFailed(pgResults)
    /\ Len(results) = 1
    /\ results[1].successful

\* C36: in the document engine a descriptor whose version had a history
\* record when execute_migrations was called is not applied again by that
\* call, whether its read of the history succeeded or failed.
FailedReadNeverReapplies ==
    [][(cur = "mongo" /\ pc = "loop" /\ Len(sent'["mongo"]) > Len(sent["mongo"]))
          => sent'["mongo"][Len(sent'["mongo"])].version
                 \notin VersionsIn(SubSeq(history["mongo"], 1, hist0))]_vars

\* C37: with two runners interleaving execute_migrations on one relational
\* store, the history never holds two rows with one installed_rank, and no
\* version's script is executed by both runners.
RanksNeverCollide ==
    \A i, j \in 1..Len(history["pg"]) :
        history["pg"][i].installed_rank = history["pg"][j].installed_rank => i = j

ExecutedVersions(r) == {executed[r][i] : i \in 1..Len(executed[r])}

RunnersNeverCollide ==
    /\ RanksNeverCollide
    /\ ExecutedVersions(1) \cap ExecutedVersions(2) = {}

\* C38: a confirmed clean leaves the relational history empty and its table
\* dropped; an execute_migrations call of the relational engine that finds
\* the history empty has every discovered descriptor pending, in ascending
\* order of the versions; each iteration of its loop adds the record of the
\* next descriptor of that order with the next rank, counted from 1; and when
\* no script fails the call returns with one record per discovered descriptor.
CleanStartsOver ==
    [][LET all == DiscoverMigrations("pg", disk["pg"])
           k == Len(results) + 1
           h == history'["pg"]
       IN  /\ pc' = "cleaned" => history'["pg"] = <<>> /\ ~tableExists'["pg"]
           /\ (pc # "loop" /\ pc' \in {"loop", "returned"} /\ cur' = "pg"
                  /\ history["pg"] = <<>>)
                 => pending' = all /\ Ascending(pending') /\ hist0' = 0
           /\ (pc = "loop" /\ cur = "pg" /\ hist0 = 0)
                 => /\ Len(h) = k
                    /\ SubSeq(h, 1, k - 1) = history["pg"]
                    /\ h[k].installed_rank = k
                    /\ h[k].version = all[k].version
                    /\ h[k].script = all[k].filename
                    /\ (pc' = "returned" /\ h[k].success) => k = Len(all)]_vars

\* C38 witness: after a clean, a call that started on the empty history has
\* returned with the three discovered scripts applied under the ranks 1, 2, 3.
CleanStartsOverWitness ==
    /\ HistoryTable \in drops
    /\ pc = "returned"
    /\ cur = "pg"
    /\ hist0 = 0
    /\ Len(disk["pg"]) = 3
    /\ Len(history["pg"]) = 3
    /\ \A i \in 1..3 : history["pg"][i].installed_rank = i /\ history["pg"][i].success

====
